---- MODULE Spec2Model ----
(***************************************************************************)
(* ReliefStablecoin (RUSD) and ReliefFundManager: the token ledger, the    *)
(* beneficiary / merchant registry, the transfer authorizer and the audit  *)
(* log, as one state machine.                                              *)
(*                                                                         *)
(* Every external call is one atomic transaction of the chain.  A call     *)
(* that reverts rolls back every write it made, so it leaves the state as  *)
(* it was: it is a stuttering step.  For each handler H the operator       *)
(* H_err gives the revert reason of a call in the current state ("ok" when *)
(* the call completes), following the order of the modifiers and checks of *)
(* the source, and the action H is the completed call.                     *)
(*                                                                         *)
(* uint256 amounts are scaled down to 0..MaxUint; Solidity ^0.8 arithmetic *)
(* is checked, so an addition of amounts that would exceed MaxUint reverts *)
(* ("Panic").  The three counters count addresses and array entries, which *)
(* cannot reach 2^256, so their increments are modelled without overflow;  *)
(* their decrements keep the checked underflow.                            *)
(*                                                                         *)
(* ReliefStablecoinV2, the token with the multi-authority mint requests    *)
(* and the emergency / recovery modes, is a contract of its own with its   *)
(* own storage; it consults the same ReliefFundManager.  Its amounts are   *)
(* scaled down to 0..MaxSupply.                                            *)
(***************************************************************************)
EXTENDS Integers, Sequences, FiniteSets, TLC

\* ------------------------------------------------------------------ bounds
MaxUint == 1
MaxLog == 1
MaxAudit == 2
MaxSupply == 2
MaxRequests == 2

\* --------------------------------------------------------------- addresses
ZERO == "0x0"
Admin == "admin"
U1 == "u1"
U2 == "u2"
U3 == "u3"
TokenAddr == "token"
ManagerAddr == "manager"

Accounts == {Admin, U1, U2, U3}
Addr == Accounts \cup {ZERO, TokenAddr, ManagerAddr}

Uint == 0..MaxUint

\* block.timestamp, abstracted to one positive value
BlockTimestamp == 1

\* enum SpendingCategory
FOOD == 0
MEDICAL == 1
SHELTER == 2
EDUCATION == 3
UTILITIES == 4
SpendingCategory == {FOOD, MEDICAL, SHELTER, EDUCATION, UTILITIES}

\* enum RecoveryMode of ReliefStablecoinV2
NORMAL == 0
EMERGENCY == 1
RECOVERY == 2
RecoveryMode == {NORMAL, EMERGENCY, RECOVERY}

\* block.number, abstracted to one positive value
BlockNumber == 1

\* The amounts of ReliefStablecoinV2 and the ids of its mint requests.
V2Uint == 0..MaxSupply
RequestIds == 0..(MaxRequests - 1)

\* ------------------------------------------------------------------- state
VARIABLES
    \* ReliefStablecoin
    balances,            \* ERC20 _balances
    totalSupply,         \* ERC20 _totalSupply
    allowances,          \* ERC20 _allowances[owner][spender]
    tokenPaused,         \* Pausable _paused of the token
    fundManager,         \* address public fundManager
    \* ReliefFundManager
    stablecoin,          \* address public stablecoin
    beneficiaries,       \* mapping(address => Beneficiary)
    merchants,           \* mapping(address => Merchant)
    beneficiaryList,     \* address[] beneficiaryList
    merchantList,        \* address[] merchantList
    transactionHistory,  \* TransactionRecord[] transactionHistory
    totalBeneficiaries,
    totalMerchants,
    totalTransactions,
    managerPaused        \* Pausable _paused of the fund manager

VARIABLES
    \* ReliefStablecoinV2
    v2Balances,              \* ERC20 _balances
    v2TotalSupply,           \* ERC20 _totalSupply
    v2Allowances,            \* ERC20 _allowances[owner][spender]
    v2Paused,                \* Pausable _paused
    v2FundManager,           \* address public fundManager
    recoveryMode,            \* RecoveryMode public recoveryMode
    authorities,             \* mapping(address => bool) authorities
    authorityList,           \* address[] authorityList
    requiredApprovals,
    mintRequestCount,
    mintRequests,            \* mapping(uint256 => MintRequest)
    beneficiaryAllocations,  \* mapping(address => FundAllocation[])
    lastActivityTimestamp,   \* mapping(address => uint256)
    tokenJourneys,           \* TokenJourney[] tokenJourneys
    totalMinted,
    totalBurned,
    categorySpending         \* mapping(SpendingCategory => uint256)

tokenVars == <<balances, totalSupply, allowances, tokenPaused, fundManager>>
registryVars == <<beneficiaries, merchants, beneficiaryList, merchantList,
                  transactionHistory, totalBeneficiaries, totalMerchants,
                  totalTransactions>>
managerVars == <<stablecoin, registryVars, managerPaused>>
v2TokenVars == <<v2Balances, v2TotalSupply, v2Allowances, v2Paused,
                 v2FundManager>>
v2MultiSigVars == <<authorities, authorityList, requiredApprovals,
                    mintRequestCount, mintRequests>>
v2TrackingVars == <<beneficiaryAllocations, lastActivityTimestamp,
                    tokenJourneys, totalMinted, totalBurned,
                    categorySpending>>
v2Vars == <<v2TokenVars, recoveryMode, v2MultiSigVars, v2TrackingVars>>
vars == <<tokenVars, managerVars, v2Vars>>

\* Both contracts are deployed by the same account (Ownable(msg.sender)).
tokenOwner == Admin
managerOwner == Admin
v2Owner == Admin

\* The zero values of the structs (an unset mapping slot).
NoBeneficiary == [isActive |-> FALSE, registeredAt |-> 0,
                  totalReceived |-> 0, totalSpent |-> 0]
NoMerchant == [isActive |-> FALSE, category |-> FOOD, name |-> "",
               registeredAt |-> 0]
\* approvals, the mapping(address => bool) of a request, is the set of the
\* addresses it maps to true.
NoRequest == [beneficiary |-> ZERO, amount |-> 0, purpose |-> FOOD,
              expiryDays |-> 0, proposer |-> ZERO, approvalCount |-> 0,
              executed |-> FALSE, createdAt |-> 0, approvals |-> {}]

Init ==
    /\ balances = [a \in Addr |-> 0]
    /\ totalSupply = 0
    /\ allowances = [o \in Addr |-> [s \in Addr |-> 0]]
    /\ tokenPaused = FALSE
    /\ fundManager = ZERO
    /\ stablecoin = ZERO
    /\ beneficiaries = [a \in Addr |-> NoBeneficiary]
    /\ merchants = [a \in Addr |-> NoMerchant]
    /\ beneficiaryList = <<>>
    /\ merchantList = <<>>
    /\ transactionHistory = <<>>
    /\ totalBeneficiaries = 0
    /\ totalMerchants = 0
    /\ totalTransactions = 0
    /\ managerPaused = FALSE
    \* ReliefStablecoinV2: the constructor
    /\ v2Balances = [a \in Addr |-> 0]
    /\ v2TotalSupply = 0
    /\ v2Allowances = [o \in Addr |-> [sp \in Addr |-> 0]]
    /\ v2Paused = FALSE
    /\ v2FundManager = ZERO
    /\ recoveryMode = NORMAL
    /\ authorities = [a \in Addr |-> a = v2Owner]
    /\ authorityList = <<v2Owner>>
    /\ requiredApprovals = 1
    /\ mintRequestCount = 0
    /\ mintRequests = [id \in RequestIds |-> NoRequest]
    /\ beneficiaryAllocations = [a \in Addr |-> <<>>]
    /\ lastActivityTimestamp = [a \in Addr |-> 0]
    /\ tokenJourneys = <<>>
    /\ totalMinted = 0
    /\ totalBurned = 0
    /\ categorySpending = [c \in SpendingCategory |-> 0]

\* ------------------------------------------------- ReliefFundManager: views
isBeneficiary(a) == beneficiaries[a].isActive

isMerchant(a) == merchants[a].isActive

\* Faulty variants of isTransferAllowed, which the properties below exclude.
\* A removed beneficiary stays restricted: the check reads the record's
\* existence instead of its active flag.
isTransferAllowed_everRegistered(from, to, amount) ==
    IF beneficiaries[from].registeredAt = 0 THEN TRUE
    ELSE IF ~merchants[to].isActive THEN FALSE
    ELSE TRUE

\* A removed merchant still receives: the check reads the record's
\* existence instead of its active flag.
isTransferAllowed_removedMerchant(from, to, amount) ==
    IF ~beneficiaries[from].isActive THEN TRUE
    ELSE IF merchants[to].registeredAt = 0 THEN FALSE
    ELSE TRUE

\* Any whitelisted recipient, beneficiary or merchant, may receive.
isTransferAllowed_anyWhitelisted(from, to, amount) ==
    IF ~beneficiaries[from].isActive THEN TRUE
    ELSE IF ~merchants[to].isActive /\ ~beneficiaries[to].isActive THEN FALSE
    ELSE TRUE

isTransferAllowed(from, to, amount) ==
    IF ~beneficiaries[from].isActive THEN TRUE
    ELSE IF ~merchants[to].isActive THEN FALSE
    ELSE TRUE

getTransactionCount == Len(transactionHistory)

getAllBeneficiaries == beneficiaryList

getAllMerchants == merchantList

\* getMerchantDetails: (isActive, category, name, registeredAt)
getMerchantDetails(m) ==
    <<merchants[m].isActive, merchants[m].category, merchants[m].name,
      merchants[m].registeredAt>>

\* getBeneficiaryDetails: (isActive, registeredAt, totalReceived, totalSpent)
getBeneficiaryDetails(b) ==
    <<beneficiaries[b].isActive, beneficiaries[b].registeredAt,
      beneficiaries[b].totalReceived, beneficiaries[b].totalSpent>>

\* getTransaction: the require on the index, then the array element (the
\* array of the source is 0-based, the sequence of the model 1-based).
\* Faulty variant of getTransaction_err: the bound is off by one.
getTransaction_errOffByOne(index) ==
    IF ~(index <= Len(transactionHistory)) THEN "Index out of bounds"
    ELSE "ok"

getTransaction_err(index) ==
    IF ~(index < Len(transactionHistory)) THEN "Index out of bounds"
    ELSE "ok"

getTransaction(index) == transactionHistory[index + 1]

\* getRecentTransactions: count is clamped to the length, then the loop
\* copies transactionHistory[total - count + i] into recent[i] for
\* i = 0 .. count - 1.  The result is a sequence (1-based).
clampedCount(count) ==
    IF count > Len(transactionHistory) THEN Len(transactionHistory)
    ELSE count

\* Faulty variant of getRecentTransactions: the loop copies from the start
\* of the log.
getRecentTransactions_fromStart(count) ==
    [i \in 1..clampedCount(count) |-> transactionHistory[(i - 1) + 1]]

getRecentTransactions(count) ==
    [i \in 1..clampedCount(count) |->
        transactionHistory[(Len(transactionHistory) - clampedCount(count)
                               + (i - 1)) + 1]]

\* The checked subtraction and the array accesses of the loop.
getRecentTransactions_err(count) ==
    IF Len(transactionHistory) - clampedCount(count) < 0 THEN "Panic"
    ELSE IF \E i \in 0..(clampedCount(count) - 1) :
               ~(Len(transactionHistory) - clampedCount(count) + i
                    < Len(transactionHistory))
         THEN "Panic"
    ELSE "ok"

\* ------------------------------------------- ReliefFundManager: admin setup
setStablecoin_err(sender, a) ==
    IF sender # managerOwner THEN "OwnableUnauthorizedAccount"
    ELSE IF a = ZERO THEN "ZeroAddress"
    ELSE "ok"

setStablecoin(sender, a) ==
    /\ setStablecoin_err(sender, a) = "ok"
    /\ stablecoin' = a
    /\ UNCHANGED <<tokenVars, registryVars, managerPaused>>

\* ------------------------------------------------ beneficiary management
\* Faulty variant of addBeneficiary_err: the duplicate test reads the
\* active flag, so a removed beneficiary can be added again.
addBeneficiary_errActiveOnly(sender, b) ==
    IF sender # managerOwner THEN "OwnableUnauthorizedAccount"
    ELSE IF managerPaused THEN "EnforcedPause"
    ELSE IF b = ZERO THEN "ZeroAddress"
    ELSE IF beneficiaries[b].isActive THEN "BeneficiaryAlreadyExists"
    ELSE "ok"

addBeneficiary_err(sender, b) ==
    IF sender # managerOwner THEN "OwnableUnauthorizedAccount"
    ELSE IF managerPaused THEN "EnforcedPause"
    ELSE IF b = ZERO THEN "ZeroAddress"
    ELSE IF beneficiaries[b].registeredAt # 0 THEN "BeneficiaryAlreadyExists"
    ELSE "ok"

\* Faulty variant of addBeneficiary: the identity is not appended to the
\* enumeration list.
addBeneficiary_notListed(sender, b) ==
    /\ addBeneficiary_err(sender, b) = "ok"
    /\ beneficiaries' = [beneficiaries EXCEPT ![b] =
            [isActive |-> TRUE, registeredAt |-> BlockTimestamp,
             totalReceived |-> 0, totalSpent |-> 0]]
    /\ totalBeneficiaries' = totalBeneficiaries + 1
    /\ UNCHANGED <<tokenVars, stablecoin, managerPaused, merchants,
                   beneficiaryList, merchantList, transactionHistory,
                   totalMerchants, totalTransactions>>

addBeneficiary(sender, b) ==
    /\ addBeneficiary_err(sender, b) = "ok"
    /\ beneficiaries' = [beneficiaries EXCEPT ![b] =
            [isActive |-> TRUE, registeredAt |-> BlockTimestamp,
             totalReceived |-> 0, totalSpent |-> 0]]
    /\ beneficiaryList' = Append(beneficiaryList, b)
    /\ totalBeneficiaries' = totalBeneficiaries + 1
    /\ UNCHANGED <<tokenVars, stablecoin, managerPaused, merchants,
                   merchantList, transactionHistory, totalMerchants,
                   totalTransactions>>

\* Faulty variant of removeBeneficiary_err: the function carries
\* whenNotPaused as the registrations do.
removeBeneficiary_errWhenNotPaused(sender, b) ==
    IF sender # managerOwner THEN "OwnableUnauthorizedAccount"
    ELSE IF managerPaused THEN "EnforcedPause"
    ELSE IF b = ZERO THEN "ZeroAddress"
    ELSE IF ~beneficiaries[b].isActive THEN "BeneficiaryNotFound"
    ELSE IF totalBeneficiaries - 1 < 0 THEN "Panic"
    ELSE "ok"

\* Faulty variant of removeBeneficiary_err: the test reads the record's
\* existence, so a removed beneficiary can be removed once more.
removeBeneficiary_errRegistered(sender, b) ==
    IF sender # managerOwner THEN "OwnableUnauthorizedAccount"
    ELSE IF b = ZERO THEN "ZeroAddress"
    ELSE IF beneficiaries[b].registeredAt = 0 THEN "BeneficiaryNotFound"
    ELSE IF totalBeneficiaries - 1 < 0 THEN "Panic"
    ELSE "ok"

removeBeneficiary_err(sender, b) ==
    IF sender # managerOwner THEN "OwnableUnauthorizedAccount"
    ELSE IF b = ZERO THEN "ZeroAddress"
    ELSE IF ~beneficiaries[b].isActive THEN "BeneficiaryNotFound"
    ELSE IF totalBeneficiaries - 1 < 0 THEN "Panic"
    ELSE "ok"

\* Faulty variant of removeBeneficiary: the removal clears the accumulators
\* of the record.
removeBeneficiary_resetsTotals(sender, b) ==
    /\ removeBeneficiary_err(sender, b) = "ok"
    /\ beneficiaries' = [beneficiaries EXCEPT ![b].isActive = FALSE,
                                              ![b].totalReceived = 0,
                                              ![b].totalSpent = 0]
    /\ totalBeneficiaries' = totalBeneficiaries - 1
    /\ UNCHANGED <<tokenVars, stablecoin, managerPaused, merchants,
                   beneficiaryList, merchantList, transactionHistory,
                   totalMerchants, totalTransactions>>

removeBeneficiary(sender, b) ==
    /\ removeBeneficiary_err(sender, b) = "ok"
    /\ beneficiaries' = [beneficiaries EXCEPT ![b].isActive = FALSE]
    /\ totalBeneficiaries' = totalBeneficiaries - 1
    /\ UNCHANGED <<tokenVars, stablecoin, managerPaused, merchants,
                   beneficiaryList, merchantList, transactionHistory,
                   totalMerchants, totalTransactions>>

\* --------------------------------------------------- merchant management
\* Faulty variant of addMerchant_err: the duplicate test reads the active
\* flag, so a removed merchant can be added again.
addMerchant_errActiveOnly(sender, m, category, name) ==
    IF sender # managerOwner THEN "OwnableUnauthorizedAccount"
    ELSE IF managerPaused THEN "EnforcedPause"
    ELSE IF m = ZERO THEN "ZeroAddress"
    ELSE IF merchants[m].isActive THEN "MerchantAlreadyExists"
    ELSE "ok"

addMerchant_err(sender, m, category, name) ==
    IF sender # managerOwner THEN "OwnableUnauthorizedAccount"
    ELSE IF managerPaused THEN "EnforcedPause"
    ELSE IF m = ZERO THEN "ZeroAddress"
    ELSE IF merchants[m].registeredAt # 0 THEN "MerchantAlreadyExists"
    ELSE "ok"

\* Faulty variant of addMerchant: the category argument is not stored, the
\* record keeps the enum's zero value.
addMerchant_defaultCategory(sender, m, category, name) ==
    /\ addMerchant_err(sender, m, category, name) = "ok"
    /\ merchants' = [merchants EXCEPT ![m] =
            [isActive |-> TRUE, category |-> FOOD, name |-> name,
             registeredAt |-> BlockTimestamp]]
    /\ merchantList' = Append(merchantList, m)
    /\ totalMerchants' = totalMerchants + 1
    /\ UNCHANGED <<tokenVars, stablecoin, managerPaused, beneficiaries,
                   beneficiaryList, transactionHistory, totalBeneficiaries,
                   totalTransactions>>

addMerchant(sender, m, category, name) ==
    /\ addMerchant_err(sender, m, category, name) = "ok"
    /\ merchants' = [merchants EXCEPT ![m] =
            [isActive |-> TRUE, category |-> category, name |-> name,
             registeredAt |-> BlockTimestamp]]
    /\ merchantList' = Append(merchantList, m)
    /\ totalMerchants' = totalMerchants + 1
    /\ UNCHANGED <<tokenVars, stablecoin, managerPaused, beneficiaries,
                   beneficiaryList, transactionHistory, totalBeneficiaries,
                   totalTransactions>>

removeMerchant_err(sender, m) ==
    IF sender # managerOwner THEN "OwnableUnauthorizedAccount"
    ELSE IF m = ZERO THEN "ZeroAddress"
    ELSE IF ~merchants[m].isActive THEN "MerchantNotFound"
    ELSE IF totalMerchants - 1 < 0 THEN "Panic"
    ELSE "ok"

\* Faulty variant of removeMerchant: the counter is not decremented.
removeMerchant_keepsCount(sender, m) ==
    /\ removeMerchant_err(sender, m) = "ok"
    /\ merchants' = [merchants EXCEPT ![m].isActive = FALSE]
    /\ UNCHANGED <<tokenVars, stablecoin, managerPaused, beneficiaries,
                   beneficiaryList, merchantList, transactionHistory,
                   totalBeneficiaries, totalMerchants, totalTransactions>>

removeMerchant(sender, m) ==
    /\ removeMerchant_err(sender, m) = "ok"
    /\ merchants' = [merchants EXCEPT ![m].isActive = FALSE]
    /\ totalMerchants' = totalMerchants - 1
    /\ UNCHANGED <<tokenVars, stablecoin, managerPaused, beneficiaries,
                   beneficiaryList, merchantList, transactionHistory,
                   totalBeneficiaries, totalTransactions>>

\* ------------------------------------------------------ audit recording
\* Mutant of recordTransfer_err: the owner may record too.
recordTransfer_errOwnerToo(caller, from, to, amount) ==
    IF caller # stablecoin /\ caller # managerOwner THEN "OnlyStablecoin"
    ELSE IF beneficiaries[from].isActive /\ merchants[to].isActive
              /\ beneficiaries[from].totalSpent + amount > MaxUint
         THEN "Panic"
    ELSE "ok"

\* msg.sender of recordTransfer is `caller`: the token contract when the
\* call comes from transfer / transferFrom, an account when called directly.
recordTransfer_err(caller, from, to, amount) ==
    IF caller # stablecoin THEN "OnlyStablecoin"
    ELSE IF beneficiaries[from].isActive /\ merchants[to].isActive
              /\ beneficiaries[from].totalSpent + amount > MaxUint
         THEN "Panic"
    ELSE "ok"

\* Mutant of recordTransfer_body: the amount is credited to the wrong
\* accumulator of the sender's record.
recordTransfer_bodyWrongField(from, to, amount) ==
    IF beneficiaries[from].isActive /\ merchants[to].isActive
    THEN /\ beneficiaries' =
                [beneficiaries EXCEPT ![from].totalReceived = @ + amount]
         /\ transactionHistory' = Append(transactionHistory,
                [from |-> from, to |-> to, amount |-> amount,
                 category |-> merchants[to].category,
                 timestamp |-> BlockTimestamp, success |-> TRUE])
         /\ totalTransactions' = totalTransactions + 1
    ELSE UNCHANGED <<beneficiaries, transactionHistory, totalTransactions>>

\* Mutant of recordTransfer_body: the recipient's merchant status is not
\* checked, every transfer of a beneficiary is recorded.
recordTransfer_bodyAnyRecipient(from, to, amount) ==
    IF beneficiaries[from].isActive
    THEN /\ beneficiaries' =
                [beneficiaries EXCEPT ![from].totalSpent = @ + amount]
         /\ transactionHistory' = Append(transactionHistory,
                [from |-> from, to |-> to, amount |-> amount,
                 category |-> merchants[to].category,
                 timestamp |-> BlockTimestamp, success |-> TRUE])
         /\ totalTransactions' = totalTransactions + 1
    ELSE UNCHANGED <<beneficiaries, transactionHistory, totalTransactions>>

\* Faulty variant of recordTransfer_body: the new record is put in front of
\* the log, shifting the index of every earlier record.
recordTransfer_bodyPrepend(from, to, amount) ==
    IF beneficiaries[from].isActive /\ merchants[to].isActive
    THEN /\ beneficiaries' =
                [beneficiaries EXCEPT ![from].totalSpent = @ + amount]
         /\ transactionHistory' =
                <<[from |-> from, to |-> to, amount |-> amount,
                   category |-> merchants[to].category,
                   timestamp |-> BlockTimestamp, success |-> TRUE]>>
                \o transactionHistory
         /\ totalTransactions' = totalTransactions + 1
    ELSE UNCHANGED <<beneficiaries, transactionHistory, totalTransactions>>

\* Faulty variant of recordTransfer_body: the record's category is left at
\* the enum's zero value instead of being copied from the merchant.
recordTransfer_bodyDefaultCategory(from, to, amount) ==
    IF beneficiaries[from].isActive /\ merchants[to].isActive
    THEN /\ beneficiaries' =
                [beneficiaries EXCEPT ![from].totalSpent = @ + amount]
         /\ transactionHistory' = Append(transactionHistory,
                [from |-> from, to |-> to, amount |-> amount,
                 category |-> FOOD,
                 timestamp |-> BlockTimestamp, success |-> TRUE])
         /\ totalTransactions' = totalTransactions + 1
    ELSE UNCHANGED <<beneficiaries, transactionHistory, totalTransactions>>

\* Faulty variant of recordTransfer_body: the record is appended but the
\* sender's totalSpent is not updated.
recordTransfer_bodyNoSpend(from, to, amount) ==
    IF beneficiaries[from].isActive /\ merchants[to].isActive
    THEN /\ beneficiaries' = beneficiaries
         /\ transactionHistory' = Append(transactionHistory,
                [from |-> from, to |-> to, amount |-> amount,
                 category |-> merchants[to].category,
                 timestamp |-> BlockTimestamp, success |-> TRUE])
         /\ totalTransactions' = totalTransactions + 1
    ELSE UNCHANGED <<beneficiaries, transactionHistory, totalTransactions>>

\* Faulty variant of recordTransfer_body: totalSpent counts the recorded
\* transfers instead of adding their amounts.
recordTransfer_bodyCountsTransfers(from, to, amount) ==
    IF beneficiaries[from].isActive /\ merchants[to].isActive
          /\ beneficiaries[from].totalSpent + 1 <= MaxUint
    THEN /\ beneficiaries' =
                [beneficiaries EXCEPT ![from].totalSpent = @ + 1]
         /\ transactionHistory' = Append(transactionHistory,
                [from |-> from, to |-> to, amount |-> amount,
                 category |-> merchants[to].category,
                 timestamp |-> BlockTimestamp, success |-> TRUE])
         /\ totalTransactions' = totalTransactions + 1
    ELSE UNCHANGED <<beneficiaries, transactionHistory, totalTransactions>>

\* The body of recordTransfer, after the onlyStablecoin modifier.
recordTransfer_body(from, to, amount) ==
    IF beneficiaries[from].isActive /\ merchants[to].isActive
    THEN /\ beneficiaries' =
                [beneficiaries EXCEPT ![from].totalSpent = @ + amount]
         /\ transactionHistory' = Append(transactionHistory,
                [from |-> from, to |-> to, amount |-> amount,
                 category |-> merchants[to].category,
                 timestamp |-> BlockTimestamp, success |-> TRUE])
         /\ totalTransactions' = totalTransactions + 1
    ELSE UNCHANGED <<beneficiaries, transactionHistory, totalTransactions>>

\* Bound of the exploration on the length of the audit log: a call that
\* would append to a log of MaxLog records is not explored.
LogHasRoom(from, to) ==
    (beneficiaries[from].isActive /\ merchants[to].isActive)
        => Len(transactionHistory) < MaxLog

recordTransfer(caller, from, to, amount) ==
    /\ recordTransfer_err(caller, from, to, amount) = "ok"
    /\ recordTransfer_body(from, to, amount)
    /\ UNCHANGED <<tokenVars, stablecoin, managerPaused, merchants,
                   beneficiaryList, merchantList, totalBeneficiaries,
                   totalMerchants>>

recordDistribution_err(sender, b, amount) ==
    IF sender # managerOwner THEN "OwnableUnauthorizedAccount"
    ELSE IF beneficiaries[b].isActive
              /\ beneficiaries[b].totalReceived + amount > MaxUint
         THEN "Panic"
    ELSE "ok"

\* Faulty variant of recordDistribution: the test reads the record's
\* existence, so a removed beneficiary is credited too.
recordDistribution_anyRecord(sender, b, amount) ==
    /\ recordDistribution_err(sender, b, amount) = "ok"
    /\ IF beneficiaries[b].registeredAt # 0
          /\ beneficiaries[b].totalReceived + amount <= MaxUint
       THEN beneficiaries' =
                [beneficiaries EXCEPT ![b].totalReceived = @ + amount]
       ELSE UNCHANGED beneficiaries
    /\ UNCHANGED <<tokenVars, stablecoin, managerPaused, merchants,
                   beneficiaryList, merchantList, transactionHistory,
                   totalBeneficiaries, totalMerchants, totalTransactions>>

recordDistribution(sender, b, amount) ==
    /\ recordDistribution_err(sender, b, amount) = "ok"
    /\ IF beneficiaries[b].isActive
       THEN beneficiaries' =
                [beneficiaries EXCEPT ![b].totalReceived = @ + amount]
       ELSE UNCHANGED beneficiaries
    /\ UNCHANGED <<tokenVars, stablecoin, managerPaused, merchants,
                   beneficiaryList, merchantList, transactionHistory,
                   totalBeneficiaries, totalMerchants, totalTransactions>>

\* ----------------------------------------------------- emergency controls
pauseSystem_err(sender) ==
    IF sender # managerOwner THEN "OwnableUnauthorizedAccount"
    ELSE IF managerPaused THEN "EnforcedPause"
    ELSE "ok"

pauseSystem(sender) ==
    /\ pauseSystem_err(sender) = "ok"
    /\ managerPaused' = TRUE
    /\ UNCHANGED <<tokenVars, stablecoin, registryVars>>

unpauseSystem_err(sender) ==
    IF sender # managerOwner THEN "OwnableUnauthorizedAccount"
    ELSE IF ~managerPaused THEN "ExpectedPause"
    ELSE "ok"

unpauseSystem(sender) ==
    /\ unpauseSystem_err(sender) = "ok"
    /\ managerPaused' = FALSE
    /\ UNCHANGED <<tokenVars, stablecoin, registryVars>>

\* ------------------------------------------------ ReliefStablecoin: admin
setFundManager_err(sender, a) ==
    IF sender # tokenOwner THEN "OwnableUnauthorizedAccount"
    ELSE IF a = ZERO THEN "ZeroAddress"
    ELSE "ok"

setFundManager(sender, a) ==
    /\ setFundManager_err(sender, a) = "ok"
    /\ fundManager' = a
    /\ UNCHANGED <<balances, totalSupply, allowances, tokenPaused,
                   managerVars>>

\* Faulty variant of mint_err: onlyOwner is missing.
mint_errAnyone(sender, to, amount) ==
    IF tokenPaused THEN "EnforcedPause"
    ELSE IF to = ZERO THEN "ZeroAddress"
    ELSE IF amount = 0 THEN "ZeroAmount"
    ELSE IF totalSupply + amount > MaxUint THEN "Panic"
    ELSE "ok"

mint_err(sender, to, amount) ==
    IF sender # tokenOwner THEN "OwnableUnauthorizedAccount"
    ELSE IF tokenPaused THEN "EnforcedPause"
    ELSE IF to = ZERO THEN "ZeroAddress"
    ELSE IF amount = 0 THEN "ZeroAmount"
    ELSE IF totalSupply + amount > MaxUint THEN "Panic"
    ELSE "ok"

mint(sender, to, amount) ==
    /\ mint_err(sender, to, amount) = "ok"
    /\ totalSupply' = totalSupply + amount
    /\ balances' = [balances EXCEPT ![to] = @ + amount]
    /\ UNCHANGED <<allowances, tokenPaused, fundManager, managerVars>>

burn_err(sender, from, amount) ==
    IF sender # tokenOwner THEN "OwnableUnauthorizedAccount"
    ELSE IF from = ZERO THEN "ZeroAddress"
    ELSE IF amount = 0 THEN "ZeroAmount"
    ELSE IF balances[from] < amount THEN "InsufficientBalance"
    ELSE "ok"

burn(sender, from, amount) ==
    /\ burn_err(sender, from, amount) = "ok"
    /\ balances' = [balances EXCEPT ![from] = @ - amount]
    /\ totalSupply' = totalSupply - amount
    /\ UNCHANGED <<allowances, tokenPaused, fundManager, managerVars>>

pause_err(sender) ==
    IF sender # tokenOwner THEN "OwnableUnauthorizedAccount"
    ELSE IF tokenPaused THEN "EnforcedPause"
    ELSE "ok"

pause(sender) ==
    /\ pause_err(sender) = "ok"
    /\ tokenPaused' = TRUE
    /\ UNCHANGED <<balances, totalSupply, allowances, fundManager,
                   managerVars>>

unpause_err(sender) ==
    IF sender # tokenOwner THEN "OwnableUnauthorizedAccount"
    ELSE IF ~tokenPaused THEN "ExpectedPause"
    ELSE "ok"

unpause(sender) ==
    /\ unpause_err(sender) = "ok"
    /\ tokenPaused' = FALSE
    /\ UNCHANGED <<balances, totalSupply, allowances, fundManager,
                   managerVars>>

\* ERC20.approve, inherited unchanged: msg.sender sets spender's allowance.
approve_err(sender, spender, amount) ==
    IF spender = ZERO THEN "ERC20InvalidSpender" ELSE "ok"

approve(sender, spender, amount) ==
    /\ approve_err(sender, spender, amount) = "ok"
    /\ allowances' = [allowances EXCEPT ![sender][spender] = amount]
    /\ UNCHANGED <<balances, totalSupply, tokenPaused, fundManager,
                   managerVars>>

\* -------------------------------------------- ReliefStablecoin: transfers
\* A call of the IReliefFundManager interface on fundManager reaches code
\* only when fundManager is the ReliefFundManager contract; on any other
\* address of the model (an account, the token itself) the call reverts.
ManagerCallFails == fundManager # ManagerAddr

\* Mutant of validateTransfer_err: the owner bypass is missing.
validateTransfer_noBypass(from, to, amount) ==
    IF fundManager # ZERO
    THEN IF ManagerCallFails THEN "CallReverted"
         ELSE IF ~isTransferAllowed(from, to, amount)
              THEN "UnauthorizedTransfer"
         ELSE "ok"
    ELSE "ok"

\* Mutant of validateTransfer_err: the authorizer's answer is not negated,
\* so a refused transfer passes.
validateTransfer_ignored(from, to, amount) ==
    IF from = tokenOwner THEN "ok"
    ELSE IF fundManager # ZERO
         THEN IF ManagerCallFails THEN "CallReverted" ELSE "ok"
    ELSE "ok"

\* _validateTransfer: "ok", or the reason it reverts.
validateTransfer_err(from, to, amount) ==
    IF from = tokenOwner THEN "ok"
    ELSE IF fundManager # ZERO
         THEN IF ManagerCallFails THEN "CallReverted"
              ELSE IF ~isTransferAllowed(from, to, amount)
                   THEN "UnauthorizedTransfer"
              ELSE "ok"
    ELSE "ok"

\* ERC20._transfer / _update as inherited: the receiver and the balance.
erc20Transfer_err(from, to, amount) ==
    IF to = ZERO THEN "ERC20InvalidReceiver"
    ELSE IF balances[from] < amount THEN "ERC20InsufficientBalance"
    ELSE "ok"

\* ERC20._spendAllowance as inherited: an allowance of type(uint256).max is
\* unlimited and is not consumed.
spendAllowance_err(from, spender, amount) ==
    IF allowances[from][spender] # MaxUint
          /\ allowances[from][spender] < amount
    THEN "ERC20InsufficientAllowance"
    ELSE "ok"

spentAllowances(from, spender, amount) ==
    IF allowances[from][spender] # MaxUint
    THEN [allowances EXCEPT ![from][spender] = @ - amount]
    ELSE allowances

\* The audit call that follows a committed transfer.
afterTransfer_err(from, to, amount) ==
    IF fundManager = ZERO THEN "ok"
    ELSE IF ManagerCallFails THEN "CallReverted"
    ELSE recordTransfer_err(TokenAddr, from, to, amount)

transfer_err(sender, to, amount) ==
    IF tokenPaused THEN "EnforcedPause"
    ELSE IF validateTransfer_err(sender, to, amount) # "ok"
         THEN validateTransfer_err(sender, to, amount)
    ELSE IF erc20Transfer_err(sender, to, amount) # "ok"
         THEN erc20Transfer_err(sender, to, amount)
    ELSE afterTransfer_err(sender, to, amount)

\* Mutant of afterTransfer: the audit call is missing.
afterTransfer_notRecorded(from, to, amount) ==
    UNCHANGED <<beneficiaries, transactionHistory, totalTransactions>>

\* The registry's part of a committed transfer.
afterTransfer(from, to, amount) ==
    IF fundManager # ZERO
    THEN /\ LogHasRoom(from, to)
         /\ recordTransfer_body(from, to, amount)
    ELSE UNCHANGED <<beneficiaries, transactionHistory, totalTransactions>>

transfer(sender, to, amount) ==
    /\ transfer_err(sender, to, amount) = "ok"
    /\ balances' = [balances EXCEPT ![sender] = @ - amount, ![to] = @ + amount]
    /\ afterTransfer(sender, to, amount)
    /\ UNCHANGED <<totalSupply, allowances, tokenPaused, fundManager,
                   stablecoin, managerPaused, merchants, beneficiaryList,
                   merchantList, totalBeneficiaries, totalMerchants>>

transferFrom_err(spender, from, to, amount) ==
    IF tokenPaused THEN "EnforcedPause"
    ELSE IF validateTransfer_err(from, to, amount) # "ok"
         THEN validateTransfer_err(from, to, amount)
    ELSE IF spendAllowance_err(from, spender, amount) # "ok"
         THEN spendAllowance_err(from, spender, amount)
    ELSE IF erc20Transfer_err(from, to, amount) # "ok"
         THEN erc20Transfer_err(from, to, amount)
    ELSE afterTransfer_err(from, to, amount)

transferFrom(spender, from, to, amount) ==
    /\ transferFrom_err(spender, from, to, amount) = "ok"
    /\ allowances' = spentAllowances(from, spender, amount)
    /\ balances' = [balances EXCEPT ![from] = @ - amount, ![to] = @ + amount]
    /\ afterTransfer(from, to, amount)
    /\ UNCHANGED <<totalSupply, tokenPaused, fundManager,
                   stablecoin, managerPaused, merchants, beneficiaryList,
                   merchantList, totalBeneficiaries, totalMerchants>>

\* ------------------------------------------ ReliefStablecoinV2: authorities
onlyAuthority_err(sender) ==
    IF ~authorities[sender] /\ sender # v2Owner THEN "NotAnAuthority"
    ELSE "ok"

\* Faulty variant of notInEmergency_err: the modifier tests the pause flag
\* instead of the mode.
notInEmergency_errPausedOnly ==
    IF v2Paused THEN "EmergencyModeActive" ELSE "ok"

notInEmergency_err ==
    IF recoveryMode = EMERGENCY THEN "EmergencyModeActive" ELSE "ok"

addAuthority_err(sender, _authority) ==
    IF sender # v2Owner THEN "OwnableUnauthorizedAccount"
    ELSE IF _authority = ZERO THEN "ZeroAddress"
    ELSE "ok"

addAuthority(sender, _authority) ==
    /\ addAuthority_err(sender, _authority) = "ok"
    /\ IF ~authorities[_authority]
       THEN /\ authorities' = [authorities EXCEPT ![_authority] = TRUE]
            /\ authorityList' = Append(authorityList, _authority)
       ELSE UNCHANGED <<authorities, authorityList>>
    /\ UNCHANGED <<tokenVars, managerVars, v2TokenVars, recoveryMode,
                   requiredApprovals, mintRequestCount, mintRequests,
                   v2TrackingVars>>

\* The loop of removeAuthority: the first entry equal to a is overwritten
\* by the last entry and the array is popped.
swapAndPop(list, a) ==
    IF \E i \in 1..Len(list) : list[i] = a
    THEN LET i == CHOOSE k \in 1..Len(list) :
                     /\ list[k] = a
                     /\ \A j \in 1..(k - 1) : list[j] # a
         IN  SubSeq([list EXCEPT ![i] = list[Len(list)]], 1, Len(list) - 1)
    ELSE list

removeAuthority_err(sender, _authority) ==
    IF sender # v2Owner THEN "OwnableUnauthorizedAccount" ELSE "ok"

removeAuthority(sender, _authority) ==
    /\ removeAuthority_err(sender, _authority) = "ok"
    /\ IF authorities[_authority]
       THEN /\ authorities' = [authorities EXCEPT ![_authority] = FALSE]
            /\ authorityList' = swapAndPop(authorityList, _authority)
       ELSE UNCHANGED <<authorities, authorityList>>
    /\ UNCHANGED <<tokenVars, managerVars, v2TokenVars, recoveryMode,
                   requiredApprovals, mintRequestCount, mintRequests,
                   v2TrackingVars>>

setRequiredApprovals_err(sender, _required) ==
    IF sender # v2Owner THEN "OwnableUnauthorizedAccount"
    ELSE IF ~(_required > 0 /\ _required <= Len(authorityList))
         THEN "Invalid approval count"
    ELSE "ok"

setRequiredApprovals(sender, _required) ==
    /\ setRequiredApprovals_err(sender, _required) = "ok"
    /\ requiredApprovals' = _required
    /\ UNCHANGED <<tokenVars, managerVars, v2TokenVars, recoveryMode,
                   authorities, authorityList, mintRequestCount,
                   mintRequests, v2TrackingVars>>

getAuthorityCount == Len(authorityList)

\* ---------------------------------------- ReliefStablecoinV2: mint requests
\* ERC20._mint as inherited, followed by totalMinted += amount.
v2MintTokens_err(to, amount) ==
    IF to = ZERO THEN "ERC20InvalidReceiver"
    ELSE IF v2TotalSupply + amount > MaxSupply THEN "Panic"
    ELSE IF totalMinted + amount > MaxSupply THEN "Panic"
    ELSE "ok"

\* A TokenJourney; the keccak256 journeyId is the tuple that is hashed.
Journey(from, to, amount, category, journeyType, salt) ==
    [from |-> from, to |-> to, amount |-> amount, category |-> category,
     journeyType |-> journeyType, timestamp |-> BlockTimestamp,
     journeyId |-> <<from, to, amount, BlockTimestamp, salt>>]

\* journeysByToken[id]: the indexes _recordJourney pushed for id.
journeysByToken(id) ==
    {k \in 0..(Len(tokenJourneys) - 1) : tokenJourneys[k + 1].journeyId = id}

getJourneyCount == Len(tokenJourneys)

\* _executeMint on the request as the caller has just written it.
executeMint_err(request) ==
    IF request.executed THEN "RequestAlreadyExecuted"
    ELSE IF request.approvalCount < requiredApprovals
         THEN "InsufficientApprovals"
    ELSE v2MintTokens_err(request.beneficiary, request.amount)

expiryTimestamp(request) ==
    IF request.expiryDays > 0 THEN BlockTimestamp + request.expiryDays
    ELSE 0

executeMint(_requestId, request) ==
    /\ mintRequests' = [mintRequests EXCEPT
            ![_requestId] = [request EXCEPT !.executed = TRUE]]
    /\ beneficiaryAllocations' = [beneficiaryAllocations EXCEPT
            ![request.beneficiary] = Append(@,
                [amount |-> request.amount, purpose |-> request.purpose,
                 expiryTimestamp |-> expiryTimestamp(request),
                 allocatedAt |-> BlockTimestamp, isActive |-> TRUE])]
    /\ v2TotalSupply' = v2TotalSupply + request.amount
    /\ v2Balances' = [v2Balances EXCEPT
            ![request.beneficiary] = @ + request.amount]
    /\ totalMinted' = totalMinted + request.amount
    /\ lastActivityTimestamp' = [lastActivityTimestamp EXCEPT
            ![request.beneficiary] = BlockTimestamp]
    /\ tokenJourneys' = Append(tokenJourneys,
            Journey(ZERO, request.beneficiary, request.amount,
                    request.purpose, "MINT", _requestId))

\* The tail of proposeMint and approveMint: the request is stored, and it
\* is executed when its approvalCount has reached requiredApprovals.
settleRequest_err(request) ==
    IF request.approvalCount >= requiredApprovals
    THEN executeMint_err(request)
    ELSE "ok"

settleRequest(_requestId, request) ==
    IF request.approvalCount >= requiredApprovals
    THEN executeMint(_requestId, request)
    ELSE /\ mintRequests' = [mintRequests EXCEPT ![_requestId] = request]
         /\ UNCHANGED <<beneficiaryAllocations, v2TotalSupply, v2Balances,
                        totalMinted, lastActivityTimestamp, tokenJourneys>>

\* The request as proposeMint writes it: the fields it does not assign
\* (executed, the approvals of other accounts) keep their stored value.
proposedRequest(sender, _beneficiary, _amount, _purpose, _expiryDays) ==
    [mintRequests[mintRequestCount] EXCEPT
        !.beneficiary = _beneficiary,
        !.amount = _amount,
        !.purpose = _purpose,
        !.expiryDays = _expiryDays,
        !.proposer = sender,
        !.approvalCount = 1,
        !.approvals = @ \cup {sender},
        !.createdAt = BlockTimestamp]

proposeMint_err(sender, _beneficiary, _amount, _purpose, _expiryDays) ==
    IF onlyAuthority_err(sender) # "ok" THEN onlyAuthority_err(sender)
    ELSE IF notInEmergency_err # "ok" THEN notInEmergency_err
    ELSE IF _beneficiary = ZERO THEN "ZeroAddress"
    ELSE IF _amount = 0 THEN "ZeroAmount"
    ELSE settleRequest_err(proposedRequest(sender, _beneficiary, _amount,
                                           _purpose, _expiryDays))

proposeMint(sender, _beneficiary, _amount, _purpose, _expiryDays) ==
    /\ proposeMint_err(sender, _beneficiary, _amount, _purpose,
                       _expiryDays) = "ok"
    /\ mintRequestCount' = mintRequestCount + 1
    /\ settleRequest(mintRequestCount,
                     proposedRequest(sender, _beneficiary, _amount,
                                     _purpose, _expiryDays))
    /\ UNCHANGED <<tokenVars, managerVars, v2Allowances, v2Paused,
                   v2FundManager, recoveryMode, authorities, authorityList,
                   requiredApprovals, totalBurned, categorySpending>>

\* The request as approveMint writes it.
approvedRequest(sender, _requestId) ==
    [mintRequests[_requestId] EXCEPT
        !.approvals = @ \cup {sender},
        !.approvalCount = @ + 1]

\* Faulty variant of approveMint_err: the executed flag is not tested
\* before the approval is written.
approveMint_errNoExecutedTest(sender, _requestId) ==
    IF onlyAuthority_err(sender) # "ok" THEN onlyAuthority_err(sender)
    ELSE IF notInEmergency_err # "ok" THEN notInEmergency_err
    ELSE IF sender \in mintRequests[_requestId].approvals
         THEN "AlreadyApproved"
    ELSE settleRequest_err(approvedRequest(sender, _requestId))

approveMint_err(sender, _requestId) ==
    IF onlyAuthority_err(sender) # "ok" THEN onlyAuthority_err(sender)
    ELSE IF notInEmergency_err # "ok" THEN notInEmergency_err
    ELSE IF mintRequests[_requestId].executed THEN "RequestAlreadyExecuted"
    ELSE IF sender \in mintRequests[_requestId].approvals
         THEN "AlreadyApproved"
    ELSE settleRequest_err(approvedRequest(sender, _requestId))

approveMint(sender, _requestId) ==
    /\ approveMint_err(sender, _requestId) = "ok"
    /\ settleRequest(_requestId, approvedRequest(sender, _requestId))
    /\ UNCHANGED <<tokenVars, managerVars, v2Allowances, v2Paused,
                   v2FundManager, recoveryMode, authorities, authorityList,
                   requiredApprovals, mintRequestCount, totalBurned,
                   categorySpending>>

\* ------------------------------------------- ReliefStablecoinV2: direct mint
v2Mint_err(sender, to, amount) ==
    IF sender # v2Owner THEN "OwnableUnauthorizedAccount"
    ELSE IF v2Paused THEN "EnforcedPause"
    ELSE IF notInEmergency_err # "ok" THEN notInEmergency_err
    ELSE IF to = ZERO THEN "ZeroAddress"
    ELSE IF amount = 0 THEN "ZeroAmount"
    ELSE v2MintTokens_err(to, amount)

v2Mint(sender, to, amount) ==
    /\ v2Mint_err(sender, to, amount) = "ok"
    /\ v2TotalSupply' = v2TotalSupply + amount
    /\ v2Balances' = [v2Balances EXCEPT ![to] = @ + amount]
    /\ totalMinted' = totalMinted + amount
    /\ lastActivityTimestamp' = [lastActivityTimestamp EXCEPT
            ![to] = BlockTimestamp]
    /\ tokenJourneys' = Append(tokenJourneys,
            Journey(ZERO, to, amount, FOOD, "MINT", BlockNumber))
    /\ UNCHANGED <<tokenVars, managerVars, v2Allowances, v2Paused,
                   v2FundManager, recoveryMode, v2MultiSigVars,
                   beneficiaryAllocations, totalBurned, categorySpending>>

v2Burn_err(sender, from, amount) ==
    IF sender # v2Owner THEN "OwnableUnauthorizedAccount"
    ELSE IF from = ZERO THEN "ZeroAddress"
    ELSE IF amount = 0 THEN "ZeroAmount"
    ELSE IF v2Balances[from] < amount THEN "InsufficientBalance"
    ELSE IF totalBurned + amount > MaxSupply THEN "Panic"
    ELSE "ok"

v2Burn(sender, from, amount) ==
    /\ v2Burn_err(sender, from, amount) = "ok"
    /\ v2Balances' = [v2Balances EXCEPT ![from] = @ - amount]
    /\ v2TotalSupply' = v2TotalSupply - amount
    /\ totalBurned' = totalBurned + amount
    /\ UNCHANGED <<tokenVars, managerVars, v2Allowances, v2Paused,
                   v2FundManager, recoveryMode, v2MultiSigVars,
                   beneficiaryAllocations, lastActivityTimestamp,
                   tokenJourneys, totalMinted, categorySpending>>

v2SetFundManager_err(sender, _fundManager) ==
    IF sender # v2Owner THEN "OwnableUnauthorizedAccount"
    ELSE IF _fundManager = ZERO THEN "ZeroAddress"
    ELSE "ok"

v2SetFundManager(sender, _fundManager) ==
    /\ v2SetFundManager_err(sender, _fundManager) = "ok"
    /\ v2FundManager' = _fundManager
    /\ UNCHANGED <<tokenVars, managerVars, v2Balances, v2TotalSupply,
                   v2Allowances, v2Paused, recoveryMode, v2MultiSigVars,
                   v2TrackingVars>>

\* ERC20.approve, inherited unchanged.
v2Approve_err(sender, spender, amount) ==
    IF spender = ZERO THEN "ERC20InvalidSpender" ELSE "ok"

v2Approve(sender, spender, amount) ==
    /\ v2Approve_err(sender, spender, amount) = "ok"
    /\ v2Allowances' = [v2Allowances EXCEPT ![sender][spender] = amount]
    /\ UNCHANGED <<tokenVars, managerVars, v2Balances, v2TotalSupply,
                   v2Paused, v2FundManager, recoveryMode, v2MultiSigVars,
                   v2TrackingVars>>

\* ------------------------------- ReliefStablecoinV2: emergency and recovery
\* Pausable._pause requires whenNotPaused and Pausable._unpause requires
\* whenPaused.
activateEmergencyMode_err(sender) ==
    IF sender # v2Owner THEN "OwnableUnauthorizedAccount"
    ELSE IF v2Paused THEN "EnforcedPause"
    ELSE "ok"

activateEmergencyMode(sender) ==
    /\ activateEmergencyMode_err(sender) = "ok"
    /\ recoveryMode' = EMERGENCY
    /\ v2Paused' = TRUE
    /\ UNCHANGED <<tokenVars, managerVars, v2Balances, v2TotalSupply,
                   v2Allowances, v2FundManager, v2MultiSigVars,
                   v2TrackingVars>>

activateRecoveryMode_err(sender) ==
    IF sender # v2Owner THEN "OwnableUnauthorizedAccount"
    ELSE IF recoveryMode # EMERGENCY THEN "Must be in emergency first"
    ELSE "ok"

activateRecoveryMode(sender) ==
    /\ activateRecoveryMode_err(sender) = "ok"
    /\ recoveryMode' = RECOVERY
    /\ UNCHANGED <<tokenVars, managerVars, v2TokenVars, v2MultiSigVars,
                   v2TrackingVars>>

resumeNormalMode_err(sender) ==
    IF sender # v2Owner THEN "OwnableUnauthorizedAccount"
    ELSE IF ~v2Paused THEN "ExpectedPause"
    ELSE "ok"

resumeNormalMode(sender) ==
    /\ resumeNormalMode_err(sender) = "ok"
    /\ recoveryMode' = NORMAL
    /\ v2Paused' = FALSE
    /\ UNCHANGED <<tokenVars, managerVars, v2Balances, v2TotalSupply,
                   v2Allowances, v2FundManager, v2MultiSigVars,
                   v2TrackingVars>>

v2Pause_err(sender) ==
    IF sender # v2Owner THEN "OwnableUnauthorizedAccount"
    ELSE IF v2Paused THEN "EnforcedPause"
    ELSE "ok"

v2Pause(sender) ==
    /\ v2Pause_err(sender) = "ok"
    /\ v2Paused' = TRUE
    /\ UNCHANGED <<tokenVars, managerVars, v2Balances, v2TotalSupply,
                   v2Allowances, v2FundManager, recoveryMode,
                   v2MultiSigVars, v2TrackingVars>>

v2Unpause_err(sender) ==
    IF sender # v2Owner THEN "OwnableUnauthorizedAccount"
    ELSE IF ~v2Paused THEN "ExpectedPause"
    ELSE "ok"

v2Unpause(sender) ==
    /\ v2Unpause_err(sender) = "ok"
    /\ v2Paused' = FALSE
    /\ UNCHANGED <<tokenVars, managerVars, v2Balances, v2TotalSupply,
                   v2Allowances, v2FundManager, recoveryMode,
                   v2MultiSigVars, v2TrackingVars>>

\* ---------------------------------------- ReliefStablecoinV2: transfers
\* A call of the IReliefFundManager interface reaches code only when
\* fundManager is the ReliefFundManager contract; on any other address of
\* the model, the zero address included, the call reverts.
v2ManagerCallFails == v2FundManager # ManagerAddr

v2ValidateTransfer_err(from, to, amount) ==
    IF from = v2Owner THEN "ok"
    ELSE IF v2FundManager # ZERO
         THEN IF v2ManagerCallFails THEN "CallReverted"
              ELSE IF ~isTransferAllowed(from, to, amount)
                   THEN "UnauthorizedTransfer"
              ELSE "ok"
    ELSE "ok"

v2Erc20Transfer_err(from, to, amount) ==
    IF to = ZERO THEN "ERC20InvalidReceiver"
    ELSE IF v2Balances[from] < amount THEN "ERC20InsufficientBalance"
    ELSE "ok"

\* The journey part of transfer: the getMerchantDetails call and the
\* record it selects.
v2Journey_err(to, amount) ==
    IF v2ManagerCallFails THEN "CallReverted"
    ELSE IF getMerchantDetails(to)[1]
              /\ categorySpending[getMerchantDetails(to)[2]] + amount
                    > MaxSupply
         THEN "Panic"
    ELSE "ok"

v2Transfer_err(sender, to, amount) ==
    IF v2Paused THEN "EnforcedPause"
    ELSE IF notInEmergency_err # "ok" THEN notInEmergency_err
    ELSE IF v2ValidateTransfer_err(sender, to, amount) # "ok"
         THEN v2ValidateTransfer_err(sender, to, amount)
    ELSE IF v2Journey_err(to, amount) # "ok" THEN v2Journey_err(to, amount)
    ELSE v2Erc20Transfer_err(sender, to, amount)

v2Transfer(sender, to, amount) ==
    /\ v2Transfer_err(sender, to, amount) = "ok"
    /\ lastActivityTimestamp' = [lastActivityTimestamp EXCEPT
            ![sender] = BlockTimestamp]
    /\ IF getMerchantDetails(to)[1]
       THEN /\ tokenJourneys' = Append(tokenJourneys,
                    Journey(sender, to, amount, getMerchantDetails(to)[2],
                            "SPEND", BlockNumber))
            /\ categorySpending' = [categorySpending EXCEPT
                    ![getMerchantDetails(to)[2]] = @ + amount]
       ELSE /\ tokenJourneys' = Append(tokenJourneys,
                    Journey(sender, to, amount, FOOD, "TRANSFER",
                            BlockNumber))
            /\ UNCHANGED categorySpending
    /\ v2Balances' = [v2Balances EXCEPT
            ![sender] = @ - amount, ![to] = @ + amount]
    /\ UNCHANGED <<tokenVars, managerVars, v2TotalSupply, v2Allowances,
                   v2Paused, v2FundManager, recoveryMode, v2MultiSigVars,
                   beneficiaryAllocations, totalMinted, totalBurned>>

\* ERC20._spendAllowance as inherited.
v2SpendAllowance_err(from, spender, amount) ==
    IF v2Allowances[from][spender] # MaxSupply
          /\ v2Allowances[from][spender] < amount
    THEN "ERC20InsufficientAllowance"
    ELSE "ok"

v2SpentAllowances(from, spender, amount) ==
    IF v2Allowances[from][spender] # MaxSupply
    THEN [v2Allowances EXCEPT ![from][spender] = @ - amount]
    ELSE v2Allowances

v2TransferFrom_err(spender, from, to, amount) ==
    IF v2Paused THEN "EnforcedPause"
    ELSE IF notInEmergency_err # "ok" THEN notInEmergency_err
    ELSE IF v2ValidateTransfer_err(from, to, amount) # "ok"
         THEN v2ValidateTransfer_err(from, to, amount)
    ELSE IF v2SpendAllowance_err(from, spender, amount) # "ok"
         THEN v2SpendAllowance_err(from, spender, amount)
    ELSE v2Erc20Transfer_err(from, to, amount)

v2TransferFrom(spender, from, to, amount) ==
    /\ v2TransferFrom_err(spender, from, to, amount) = "ok"
    /\ lastActivityTimestamp' = [lastActivityTimestamp EXCEPT
            ![from] = BlockTimestamp]
    /\ v2Allowances' = v2SpentAllowances(from, spender, amount)
    /\ v2Balances' = [v2Balances EXCEPT
            ![from] = @ - amount, ![to] = @ + amount]
    /\ UNCHANGED <<tokenVars, managerVars, v2TotalSupply, v2Paused,
                   v2FundManager, recoveryMode, v2MultiSigVars,
                   beneficiaryAllocations, tokenJourneys, totalMinted,
                   totalBurned, categorySpending>>

\* ------------------------------------------------------------ the system
\* The arguments the calls are explored with.  A reverting call is a
\* stuttering step, so only completed calls add states.
Callers == Accounts
Holders == {Admin, U1, U2}
Recipients == Holders \cup {ZERO}
CategoryInputs == {MEDICAL}
NameInputs == {"Grocery"}
StablecoinInputs == {ZERO, TokenAddr, U3}
ManagerInputs == {ZERO, ManagerAddr}
AllowanceInputs == {0, 1}

\* The calls of the two contracts, with the beneficiary candidates B, the
\* merchant candidates M, the approving holders Ap and the spenders Sp.
SystemNext(B, M, Ap, Sp) ==
    \/ \E s \in Callers, a \in StablecoinInputs : setStablecoin(s, a)
          /\ UNCHANGED v2Vars
    \/ \E s \in Callers, b \in B : addBeneficiary(s, b)
          /\ UNCHANGED v2Vars
    \/ \E s \in Callers, b \in B : removeBeneficiary(s, b)
          /\ UNCHANGED v2Vars
    \/ \E s \in Callers, m \in M, c \in CategoryInputs, n \in NameInputs :
          addMerchant(s, m, c, n)
          /\ UNCHANGED v2Vars
    \/ \E s \in Callers, m \in M : removeMerchant(s, m)
          /\ UNCHANGED v2Vars
    \/ \E s \in Callers, f \in Holders, t \in Holders, v \in Uint :
          LogHasRoom(f, t) /\ recordTransfer(s, f, t, v)
          /\ UNCHANGED v2Vars
    \/ \E s \in Callers, a \in ManagerInputs : setFundManager(s, a)
          /\ UNCHANGED v2Vars
    \/ \E s \in Callers, t \in Recipients, v \in Uint : mint(s, t, v)
          /\ UNCHANGED v2Vars
    \/ \E s \in Callers, f \in Recipients, v \in Uint : burn(s, f, v)
          /\ UNCHANGED v2Vars
    \/ \E s \in Callers : pause(s)
          /\ UNCHANGED v2Vars
    \/ \E s \in Callers : unpause(s)
          /\ UNCHANGED v2Vars
    \/ \E s \in Ap, sp \in Sp, v \in AllowanceInputs : approve(s, sp, v)
          /\ UNCHANGED v2Vars
    \/ \E s \in Callers, t \in Recipients, v \in Uint : transfer(s, t, v)
          /\ UNCHANGED v2Vars
    \/ \E s \in Sp, f \in Holders, t \in Recipients, v \in Uint :
          transferFrom(s, f, t, v)
          /\ UNCHANGED v2Vars

\* Two beneficiaries, one of them also the merchant; U3 is the spender.
Next == SystemNext({ZERO, U1, U2}, {ZERO, U2}, {U1}, {ZERO, U3})

Spec == Init /\ [][Next]_vars

\* The owner as a beneficiary; the owner approves U3.
NextOwner == SystemNext({ZERO, Admin, U1}, {ZERO, U2}, {Admin}, {ZERO, U3})

SpecOwner == Init /\ [][NextOwner]_vars

\* ------------------------------------------------- the fund manager alone
\* The ReliefFundManager with every one of its state-changing functions.
\* The token appears as the caller TokenAddr of recordTransfer; its calls
\* are explored with every pair of addresses and every amount.
RegistryCallers == {Admin, U3}
TokenCallers == {Admin, U3, TokenAddr}
RegistryStablecoinInputs == {ZERO, TokenAddr}
BeneficiaryInputs == {ZERO, U1, U2}
MerchantInputs == {ZERO, U2, U3}
MerchantProfiles == {<<FOOD, "Grocery">>, <<MEDICAL, "Pharmacy">>}
RecordSources == {Admin, U1}
DistributionInputs == {ZERO, U1, U3}
RecordTargets == {U1, U2, U3}

IndexInputs == 0..(MaxAudit + 2)

ManagerNext ==
    \/ \E s \in RegistryCallers, a \in RegistryStablecoinInputs :
          setStablecoin(s, a)
          /\ UNCHANGED v2Vars
    \/ \E s \in RegistryCallers, b \in BeneficiaryInputs :
          addBeneficiary(s, b)
          /\ UNCHANGED v2Vars
    \/ \E s \in RegistryCallers, b \in BeneficiaryInputs :
          removeBeneficiary(s, b)
          /\ UNCHANGED v2Vars
    \/ \E s \in RegistryCallers, m \in MerchantInputs,
          p \in MerchantProfiles : addMerchant(s, m, p[1], p[2])
          /\ UNCHANGED v2Vars
    \/ \E s \in RegistryCallers, m \in MerchantInputs :
          removeMerchant(s, m)
          /\ UNCHANGED v2Vars
    \/ \E s \in TokenCallers, f \in RecordSources, t \in RecordTargets,
          v \in Uint :
          Len(transactionHistory) < MaxAudit /\ recordTransfer(s, f, t, v)
          /\ UNCHANGED v2Vars
    \/ \E s \in RegistryCallers, b \in DistributionInputs, v \in Uint :
          recordDistribution(s, b, v)
          /\ UNCHANGED v2Vars
    \/ \E s \in RegistryCallers : pauseSystem(s)
          /\ UNCHANGED v2Vars
    \/ \E s \in RegistryCallers : unpauseSystem(s)
          /\ UNCHANGED v2Vars

SpecManager == Init /\ [][ManagerNext]_vars

\* ------------------------------------------------ the owner-only functions
\* Every onlyOwner function of the two contracts, called by the owner and by
\* another account, on one beneficiary, one merchant and one holder.
AdminBeneficiaries == {ZERO, U1}
AdminMerchants == {ZERO, U2}
AdminHolders == {ZERO, U1}

AdminNext ==
    \/ \E s \in RegistryCallers, a \in RegistryStablecoinInputs :
          setStablecoin(s, a)
          /\ UNCHANGED v2Vars
    \/ \E s \in RegistryCallers, b \in AdminBeneficiaries :
          addBeneficiary(s, b)
          /\ UNCHANGED v2Vars
    \/ \E s \in RegistryCallers, b \in AdminBeneficiaries :
          removeBeneficiary(s, b)
          /\ UNCHANGED v2Vars
    \/ \E s \in RegistryCallers, m \in AdminMerchants,
          c \in CategoryInputs, n \in NameInputs : addMerchant(s, m, c, n)
          /\ UNCHANGED v2Vars
    \/ \E s \in RegistryCallers, m \in AdminMerchants :
          removeMerchant(s, m)
          /\ UNCHANGED v2Vars
    \/ \E s \in RegistryCallers, b \in AdminBeneficiaries, v \in Uint :
          recordDistribution(s, b, v)
          /\ UNCHANGED v2Vars
    \/ \E s \in RegistryCallers : pauseSystem(s)
          /\ UNCHANGED v2Vars
    \/ \E s \in RegistryCallers : unpauseSystem(s)
          /\ UNCHANGED v2Vars
    \/ \E s \in RegistryCallers, a \in ManagerInputs : setFundManager(s, a)
          /\ UNCHANGED v2Vars
    \/ \E s \in RegistryCallers, t \in AdminHolders, v \in Uint :
          mint(s, t, v)
          /\ UNCHANGED v2Vars
    \/ \E s \in RegistryCallers, f \in AdminHolders, v \in Uint :
          burn(s, f, v)
          /\ UNCHANGED v2Vars
    \/ \E s \in RegistryCallers : pause(s)
          /\ UNCHANGED v2Vars
    \/ \E s \in RegistryCallers : unpause(s)
          /\ UNCHANGED v2Vars

SpecAdmin == Init /\ [][AdminNext]_vars

\* --------------------------------------- the fund manager and both pauses
\* The fund manager with the pause and unpause of the token next to its
\* own.
PauseNext ==
    \/ ManagerNext
    \/ \E s \in RegistryCallers : pause(s)
          /\ UNCHANGED v2Vars
    \/ \E s \in RegistryCallers : unpause(s)
          /\ UNCHANGED v2Vars

SpecPause == Init /\ [][PauseNext]_vars

\* ------------------------------------------- the ledger and the registry
\* Both contracts as in Spec, with the owner's recordDistribution.
LedgerNext ==
    \/ Next
    \/ \E s \in Callers, b \in DistributionInputs, v \in Uint :
          recordDistribution(s, b, v)
          /\ UNCHANGED v2Vars

SpecLedger == Init /\ [][LedgerNext]_vars

\* ------------------------------- ReliefStablecoinV2: the mint requests
\* The multi-authority mint of ReliefStablecoinV2 under changes of the
\* authority set and of requiredApprovals.  Request ids up to
\* MaxRequests - 1 are proposed and approved, proposed or not.
V2Callers == {Admin, U1, U2, U3}
AuthorityInputs == {ZERO, U1, U2}
RemovedAuthorityInputs == {Admin, U1}
RequiredInputs == 0..3
MintBeneficiaries == {ZERO, U3}
MintAmounts == {0, 1}
ExpiryInputs == {1}

MultiSigNext ==
    \/ \E s \in {Admin, U3}, a \in AuthorityInputs : addAuthority(s, a)
    \/ \E s \in {Admin, U3}, a \in RemovedAuthorityInputs :
          removeAuthority(s, a)
    \/ \E s \in {Admin, U3}, n \in RequiredInputs :
          setRequiredApprovals(s, n)
    \/ \E s \in V2Callers, b \in MintBeneficiaries, v \in MintAmounts,
          c \in CategoryInputs, d \in ExpiryInputs :
          mintRequestCount < MaxRequests /\ proposeMint(s, b, v, c, d)
    \/ \E s \in V2Callers, id \in RequestIds : approveMint(s, id)

SpecMultiSig == Init /\ [][MultiSigNext]_vars

\* ------------------------------- ReliefStablecoinV2: emergency and recovery
\* ReliefStablecoinV2 with its mode and pause functions next to the five
\* functions the modes gate, one extra authority and the fund manager's
\* merchant registration.  Every call may come at any time; a transfer or
\* a direct mint is explored while the journey array holds fewer than
\* MaxJourneys entries.
MaxJourneys == 1
ModeCallers == {Admin, U3}
RecoveryAuthorities == {U1}
RecoveryRequired == {1, 2}
V2Senders == {Admin, U3}
V2Recipients == {ZERO, U2}
V2Spenders == {U2}
V2ManagerInputs == {ZERO, ManagerAddr}
MintProposers == {Admin, U1}

RecoveryNext ==
    \/ \E s \in ModeCallers : activateEmergencyMode(s)
    \/ \E s \in ModeCallers : activateRecoveryMode(s)
    \/ \E s \in ModeCallers : resumeNormalMode(s)
    \/ \E s \in ModeCallers : v2Pause(s)
    \/ \E s \in ModeCallers : v2Unpause(s)
    \/ \E s \in ModeCallers, a \in RecoveryAuthorities : addAuthority(s, a)
    \/ \E s \in ModeCallers, n \in RecoveryRequired :
          setRequiredApprovals(s, n)
    \/ \E s \in ModeCallers, a \in V2ManagerInputs : v2SetFundManager(s, a)
    \/ \E s \in ModeCallers, m \in V2Recipients, c \in CategoryInputs,
          n \in NameInputs :
          addMerchant(s, m, c, n) /\ UNCHANGED v2Vars
    \/ \E s \in MintProposers, b \in MintBeneficiaries, v \in MintAmounts,
          c \in CategoryInputs, d \in ExpiryInputs :
          mintRequestCount < MaxRequests /\ proposeMint(s, b, v, c, d)
    \/ \E s \in MintProposers, id \in RequestIds : approveMint(s, id)
    \/ \E s \in ModeCallers, t \in MintBeneficiaries, v \in MintAmounts :
          Len(tokenJourneys) < MaxJourneys /\ v2Mint(s, t, v)
    \/ \E s \in V2Senders, t \in V2Recipients, v \in MintAmounts :
          Len(tokenJourneys) < MaxJourneys /\ v2Transfer(s, t, v)
    \/ \E s \in {U3}, sp \in V2Spenders, v \in MintAmounts :
          v2Approve(s, sp, v)
    \/ \E sp \in V2Spenders, f \in {U3}, t \in V2Recipients,
          v \in MintAmounts : v2TransferFrom(sp, f, t, v)

\* The owner carries a recovery out: it pauses a token that is not in
\* NORMAL mode, and it keeps calling resumeNormalMode.
RecoveryFairness ==
    /\ WF_vars(recoveryMode # NORMAL /\ v2Pause(v2Owner))
    /\ SF_vars(resumeNormalMode(v2Owner))

SpecRecovery == Init /\ [][RecoveryNext]_vars /\ RecoveryFairness

\* ================================================================ claims
\* C1: a sender that is not an active beneficiary (never registered, or
\* registered and removed) is allowed by isTransferAllowed towards every
\* recipient and for every amount, so neither transfer nor transferFrom
\* from such a sender ever reverts with UnauthorizedTransfer.
C1_NonBeneficiaryAlwaysAllowed ==
    \A i \in Addr, r \in Addr, v \in Uint :
        ~beneficiaries[i].isActive =>
            /\ isTransferAllowed(i, r, v) = TRUE
            /\ validateTransfer_err(i, r, v) # "UnauthorizedTransfer"
            /\ i \in Accounts =>
                  /\ transfer_err(i, r, v) # "UnauthorizedTransfer"
                  /\ \A sp \in Accounts :
                        transferFrom_err(sp, i, r, v) # "UnauthorizedTransfer"

\* C1 witness: with both contracts linked, a removed beneficiary holding
\* tokens can complete a transfer to an account that is no merchant, while
\* an active beneficiary exists too.
C1_Witness ==
    /\ fundManager = ManagerAddr
    /\ stablecoin = TokenAddr
    /\ \E i \in Accounts, r \in Accounts, b \in Accounts :
          /\ beneficiaries[i].registeredAt # 0
          /\ ~beneficiaries[i].isActive
          /\ beneficiaries[b].isActive
          /\ ~merchants[r].isActive
          /\ balances[i] >= 1
          /\ transfer_err(i, r, 1) = "ok"

\* C2: for an active beneficiary b, isTransferAllowed(b, r, amount) is
\* exactly "r is an active merchant": false for a recipient never added as
\* a merchant and false for a merchant that was added and then removed.
C2_BeneficiaryAllowedIffActiveMerchant ==
    \A b \in Addr, r \in Addr, v \in Uint :
        beneficiaries[b].isActive =>
            /\ isTransferAllowed(b, r, v) = merchants[r].isActive
            /\ merchants[r].registeredAt = 0 => ~isTransferAllowed(b, r, v)
            /\ (merchants[r].registeredAt # 0 /\ ~merchants[r].isActive)
                  => ~isTransferAllowed(b, r, v)

\* C2 witness: an active beneficiary, and a merchant added and removed.
C2_Witness ==
    \E b \in Accounts, r \in Accounts :
        /\ beneficiaries[b].isActive
        /\ merchants[r].registeredAt # 0
        /\ ~merchants[r].isActive
        /\ ~isTransferAllowed(b, r, 1)

\* The case of C3 and C4: the source is an active beneficiary other than
\* the owner, and the fund manager is linked.
RestrictedSource(b) ==
    /\ fundManager = ManagerAddr
    /\ beneficiaries[b].isActive
    /\ b # tokenOwner

\* C3 as stated: with the fund manager linked, a transfer or transferFrom
\* whose source is an active beneficiary (not the owner) and whose
\* recipient is not an active merchant fails with UnauthorizedTransfer.
\* Fails on the code: while the token is paused the whenNotPaused modifier
\* runs first and the call fails with EnforcedPause.
C3_Original ==
    \A b \in Accounts, r \in Addr, v \in Uint :
        (RestrictedSource(b) /\ ~merchants[r].isActive) =>
            /\ transfer_err(b, r, v) = "UnauthorizedTransfer"
            /\ \A sp \in Accounts :
                  transferFrom_err(sp, b, r, v) = "UnauthorizedTransfer"

\* C3 amended: such a call never completes (no balance, no totalSpent and
\* no audit record can change); it fails with UnauthorizedTransfer when
\* the token is not paused and with EnforcedPause when it is.
C3_BlockedTransferFails ==
    \A b \in Accounts, r \in Addr, v \in Uint :
        (RestrictedSource(b) /\ ~merchants[r].isActive) =>
            LET expected == IF tokenPaused THEN "EnforcedPause"
                            ELSE "UnauthorizedTransfer"
            IN  /\ transfer_err(b, r, v) = expected
                /\ ~ENABLED transfer(b, r, v)
                /\ \A sp \in Accounts :
                      /\ transferFrom_err(sp, b, r, v) = expected
                      /\ ~ENABLED transferFrom(sp, b, r, v)

\* C3 witness: an unpaused token, a beneficiary with tokens and with an
\* allowance given to a spender, and a removed merchant as the recipient.
C3_Witness ==
    /\ ~tokenPaused
    /\ stablecoin = TokenAddr
    /\ \E b \in Accounts, r \in Accounts, sp \in Accounts :
          /\ RestrictedSource(b)
          /\ merchants[r].registeredAt # 0
          /\ ~merchants[r].isActive
          /\ balances[b] >= 1
          /\ allowances[b][sp] >= 1
          /\ transfer_err(b, r, 1) = "UnauthorizedTransfer"
          /\ transferFrom_err(sp, b, r, 1) = "UnauthorizedTransfer"

\* C4 as stated, in the deployed configuration of the tests (fund manager
\* linked, token not paused, sender not the owner): a transfer from an
\* active beneficiary to another active beneficiary is always rejected with
\* UnauthorizedTransfer.  Fails on the code: a recipient that is also an
\* active merchant is authorized.
C4_Original ==
    \A b1 \in Accounts, b2 \in Accounts, v \in Uint :
        (RestrictedSource(b1) /\ ~tokenPaused /\ b1 # b2
            /\ beneficiaries[b2].isActive) =>
                transfer_err(b1, b2, v) = "UnauthorizedTransfer"

\* C4 amended: with the fund manager linked and the token not paused, a
\* transfer or transferFrom from an active beneficiary other than the
\* owner to another active beneficiary is rejected with
\* UnauthorizedTransfer exactly when that recipient is not an active
\* merchant.
C4_BeneficiaryToBeneficiary ==
    \A b1 \in Accounts, b2 \in Accounts, v \in Uint :
        (RestrictedSource(b1) /\ ~tokenPaused /\ b1 # b2
            /\ beneficiaries[b2].isActive) =>
                /\ (transfer_err(b1, b2, v) = "UnauthorizedTransfer")
                      <=> ~merchants[b2].isActive
                /\ \A sp \in Accounts :
                      (transferFrom_err(sp, b1, b2, v) = "UnauthorizedTransfer")
                          <=> ~merchants[b2].isActive

\* C4 witness: two active beneficiaries, the sender holding tokens, the
\* recipient no merchant, and the transfer rejected.
C4_Witness ==
    \E b1 \in Accounts, b2 \in Accounts :
        /\ RestrictedSource(b1) /\ ~tokenPaused /\ b1 # b2
        /\ stablecoin = TokenAddr
        /\ beneficiaries[b2].isActive
        /\ ~merchants[b2].isActive
        /\ balances[b1] >= 1
        /\ transfer_err(b1, b2, 1) = "UnauthorizedTransfer"

\* C5: a transfer or transferFrom whose source is the token owner is never
\* rejected by the authorization check, whatever the recipient and the
\* registry, the owner being an active beneficiary included: the token
\* returns from _validateTransfer before it consults the fund manager,
\* while isTransferAllowed itself refuses the owner like any beneficiary.
C5_OwnerBypass ==
    \A r \in Addr, v \in Uint :
        /\ validateTransfer_err(tokenOwner, r, v) = "ok"
        /\ transfer_err(tokenOwner, r, v) # "UnauthorizedTransfer"
        /\ \A sp \in Accounts :
              transferFrom_err(sp, tokenOwner, r, v) # "UnauthorizedTransfer"
        /\ (beneficiaries[tokenOwner].isActive /\ ~merchants[r].isActive)
              => ~isTransferAllowed(tokenOwner, r, v)

\* C5 witness: both contracts linked, the owner an active beneficiary
\* holding tokens, and its transfer to a non-merchant completes although
\* isTransferAllowed refuses it.
C5_Witness ==
    /\ fundManager = ManagerAddr
    /\ stablecoin = TokenAddr
    /\ beneficiaries[tokenOwner].isActive
    /\ \E r \in Accounts :
          /\ r # tokenOwner
          /\ ~merchants[r].isActive
          /\ ~isTransferAllowed(tokenOwner, r, 1)
          /\ balances[tokenOwner] >= 1
          /\ transfer_err(tokenOwner, r, 1) = "ok"

\* A step is a committed token transfer of `amount` from `from` to `to`.
CommittedTransfer(from, to, amount) ==
    \/ transfer(from, to, amount)
    \/ \E sp \in Accounts : transferFrom(sp, from, to, amount)

\* The callers recordTransfer can have: an account, or the token.
RecordCallers == Accounts \cup {TokenAddr}

\* A step is a completed recordTransfer(from, to, amount) made by the
\* designated stablecoin: called directly, or by the token at the end of a
\* committed transfer.
RecordedByStablecoin(from, to, amount) ==
    \/ recordTransfer(stablecoin, from, to, amount)
    \/ /\ fundManager = ManagerAddr
       /\ CommittedTransfer(from, to, amount)

LastRecord(log) == log[Len(log)]

\* C6 as stated: every audit record corresponds to a committed token
\* transfer of exactly that sender, recipient and amount: a step that
\* appends a record is a transfer or transferFrom with those arguments.
\* Fails on the code: setStablecoin accepts any non-zero address, and the
\* account it designates appends records by calling recordTransfer itself.
C6_LogOnlyCommittedTransfers ==
    [][Len(transactionHistory') > Len(transactionHistory) =>
          LET r == LastRecord(transactionHistory')
          IN  CommittedTransfer(r.from, r.to, r.amount)]_vars

\* C7: with the two contracts linked in both directions, every completed
\* transfer or transferFrom from an active beneficiary to an active
\* merchant appends, in the same step as the balance update, exactly one
\* record carrying its sender, recipient and amount; the count grows by one
\* and the registry changes in nothing but that recording.
C7_TransferRecordedAtomically ==
    [][\A f \in Accounts, t \in Accounts, v \in Uint :
          (/\ fundManager = ManagerAddr
           /\ stablecoin = TokenAddr
           /\ beneficiaries[f].isActive
           /\ merchants[t].isActive
           /\ CommittedTransfer(f, t, v)) =>
              /\ Len(transactionHistory') = Len(transactionHistory) + 1
              /\ SubSeq(transactionHistory', 1, Len(transactionHistory))
                    = transactionHistory
              /\ LastRecord(transactionHistory').from = f
              /\ LastRecord(transactionHistory').to = t
              /\ LastRecord(transactionHistory').amount = v
              /\ totalTransactions' = totalTransactions + 1
              /\ isTransferAllowed(f, t, v)
              /\ balances'[t] = (IF f = t THEN balances[t]
                                 ELSE balances[t] + v)
              /\ UNCHANGED <<merchants, beneficiaryList, merchantList,
                             totalBeneficiaries, totalMerchants, stablecoin,
                             fundManager>>]_vars

\* C7 witness: linked both ways, a merchant holds a token a beneficiary
\* paid, and the audit log holds that payment.
C7_Witness ==
    /\ fundManager = ManagerAddr
    /\ stablecoin = TokenAddr
    /\ Len(transactionHistory) = 1
    /\ LET r == transactionHistory[1]
       IN  /\ r.amount = 1
           /\ r.from # r.to
           /\ balances[r.to] = 1
           /\ beneficiaries[r.from].totalSpent = 1

C9_RecordTransferNoOp ==
    \A f \in Accounts, t \in Accounts, v \in Uint :
        ~(beneficiaries[f].isActive /\ merchants[t].isActive) =>
            /\ \A c \in RecordCallers :
                  c = stablecoin =>
                      /\ recordTransfer_err(c, f, t, v) = "ok"
                      /\ ENABLED (recordTransfer(c, f, t, v)
                                    /\ UNCHANGED vars)
                      /\ ~ENABLED (recordTransfer(c, f, t, v)
                                    /\ ~UNCHANGED registryVars)
            /\ ~ENABLED (/\ fundManager = ManagerAddr
                         /\ CommittedTransfer(f, t, v)
                         /\ ~UNCHANGED registryVars)

\* C9 witness: linked both ways, with a beneficiary registered, tokens have
\* reached an account that was minted nothing (a transfer was committed and
\* its recording was a no-op): the log is empty and nothing was spent.
C9_Witness ==
    /\ fundManager = ManagerAddr
    /\ stablecoin = TokenAddr
    /\ totalBeneficiaries >= 1
    /\ transactionHistory = <<>>
    /\ \A a \in Addr : beneficiaries[a].totalSpent = 0
    /\ \E f \in Accounts, t \in Accounts :
          /\ ~(beneficiaries[f].isActive /\ merchants[t].isActive)
          /\ balances[f] >= 1
          /\ transfer_err(f, t, 1) = "ok"
          /\ recordTransfer_err(stablecoin, f, t, 1) = "ok"

InList(list, a) == \E k \in 1..Len(list) : list[k] = a

\* C11 as stated: the owner's addBeneficiary / addMerchant of an identity
\* that already has a record fails with the already-exists error in every
\* state.
C11_Original ==
    \A i \in Addr :
        /\ InList(beneficiaryList, i) =>
              addBeneficiary_err(managerOwner, i) = "BeneficiaryAlreadyExists"
        /\ InList(merchantList, i) =>
              \A p \in MerchantProfiles :
                 addMerchant_err(managerOwner, i, p[1], p[2])
                    = "MerchantAlreadyExists"

\* C11: the owner's addBeneficiary(i) / addMerchant(i, ...) of an identity
\* that already has a record, active or removed, never completes: it fails
\* with the already-exists error while the fund manager is not paused and
\* with EnforcedPause while it is paused (whenNotPaused runs before the
\* body), and the registry stays as it was.  A completed call is one for a
\* non-zero identity without any record; it creates an active record with
\* zero accumulators, appends the identity to the enumeration list and
\* adds 1 to the counter, leaving every other record alone.
C11_AddFailsOnExistingRecord ==
    /\ [](\A i \in Addr :
            /\ InList(beneficiaryList, i) =>
                  /\ addBeneficiary_err(managerOwner, i) =
                        (IF managerPaused THEN "EnforcedPause"
                         ELSE "BeneficiaryAlreadyExists")
                  /\ ~ENABLED addBeneficiary(managerOwner, i)
            /\ InList(merchantList, i) =>
                  \A p \in MerchantProfiles :
                     /\ addMerchant_err(managerOwner, i, p[1], p[2]) =
                           (IF managerPaused THEN "EnforcedPause"
                            ELSE "MerchantAlreadyExists")
                     /\ ~ENABLED addMerchant(managerOwner, i, p[1], p[2]))
    /\ [][\A s \in Accounts, i \in Addr :
            /\ addBeneficiary(s, i) =>
                  /\ i # ZERO
                  /\ ~InList(beneficiaryList, i)
                  /\ beneficiaries[i] = NoBeneficiary
                  /\ beneficiaries'[i].isActive
                  /\ beneficiaries'[i].totalReceived = 0
                  /\ beneficiaries'[i].totalSpent = 0
                  /\ beneficiaryList' = Append(beneficiaryList, i)
                  /\ totalBeneficiaries' = totalBeneficiaries + 1
                  /\ \A j \in Addr \ {i} :
                        beneficiaries'[j] = beneficiaries[j]
            /\ \A p \in MerchantProfiles :
                  addMerchant(s, i, p[1], p[2]) =>
                     /\ i # ZERO
                     /\ ~InList(merchantList, i)
                     /\ merchants[i] = NoMerchant
                     /\ merchants'[i].isActive
                     /\ merchantList' = Append(merchantList, i)
                     /\ totalMerchants' = totalMerchants + 1
                     /\ \A j \in Addr \ {i} : merchants'[j] = merchants[j]
       ]_vars

\* C11 witness: with the fund manager not paused, a removed beneficiary and
\* an active merchant are both refused a second registration, next to a
\* freshly added beneficiary whose accumulators are zero.
C11_Witness ==
    /\ ~managerPaused
    /\ InList(beneficiaryList, U1) /\ ~beneficiaries[U1].isActive
    /\ addBeneficiary_err(managerOwner, U1) = "BeneficiaryAlreadyExists"
    /\ merchants[U3].isActive
    /\ addMerchant_err(managerOwner, U3, FOOD, "Grocery")
          = "MerchantAlreadyExists"
    /\ beneficiaries[U2].isActive
    /\ beneficiaries[U2].totalReceived = 0
    /\ beneficiaries[U2].totalSpent = 0

\* C12 as stated: the owner's removeBeneficiary / removeMerchant of every
\* identity without an active record fails with the not-found error.
C12_Original ==
    \A i \in Addr :
        /\ ~beneficiaries[i].isActive =>
              removeBeneficiary_err(managerOwner, i) = "BeneficiaryNotFound"
        /\ ~merchants[i].isActive =>
              removeMerchant_err(managerOwner, i) = "MerchantNotFound"

\* C12: the owner's removeBeneficiary(i) / removeMerchant(i) of an identity
\* without an active record (never added, or already removed) never
\* completes and changes nothing; it fails with the not-found error for a
\* non-zero identity and with ZeroAddress for the zero address.  A completed
\* call is one on an active record: it clears the active flag, keeps every
\* other field of the record, every other record and the enumeration list,
\* and decrements the counter by exactly 1.
C12_RemoveNeedsActiveRecord ==
    /\ [](\A i \in Addr :
            /\ ~beneficiaries[i].isActive =>
                  /\ removeBeneficiary_err(managerOwner, i) =
                        (IF i = ZERO THEN "ZeroAddress"
                         ELSE "BeneficiaryNotFound")
                  /\ ~ENABLED removeBeneficiary(managerOwner, i)
            /\ ~merchants[i].isActive =>
                  /\ removeMerchant_err(managerOwner, i) =
                        (IF i = ZERO THEN "ZeroAddress"
                         ELSE "MerchantNotFound")
                  /\ ~ENABLED removeMerchant(managerOwner, i))
    /\ [][\A s \in Accounts, i \in Addr :
            /\ removeBeneficiary(s, i) =>
                  /\ beneficiaries[i].isActive
                  /\ beneficiaries' =
                        [beneficiaries EXCEPT ![i].isActive = FALSE]
                  /\ beneficiaries'[i].registeredAt
                        = beneficiaries[i].registeredAt
                  /\ beneficiaries'[i].totalReceived
                        = beneficiaries[i].totalReceived
                  /\ beneficiaries'[i].totalSpent
                        = beneficiaries[i].totalSpent
                  /\ totalBeneficiaries' = totalBeneficiaries - 1
                  /\ beneficiaryList' = beneficiaryList
            /\ removeMerchant(s, i) =>
                  /\ merchants[i].isActive
                  /\ merchants' = [merchants EXCEPT ![i].isActive = FALSE]
                  /\ merchants'[i].category = merchants[i].category
                  /\ merchants'[i].name = merchants[i].name
                  /\ merchants'[i].registeredAt = merchants[i].registeredAt
                  /\ totalMerchants' = totalMerchants - 1
                  /\ merchantList' = merchantList
       ]_vars

\* C12 witness: a beneficiary that received a distribution has been
\* removed and keeps its accumulator, another one is still active and
\* counted, and a second removal of the first is refused; a removed
\* merchant keeps its category.
C12_Witness ==
    /\ InList(beneficiaryList, U1) /\ ~beneficiaries[U1].isActive
    /\ beneficiaries[U1].totalReceived = 1
    /\ beneficiaries[U2].isActive /\ totalBeneficiaries = 1
    /\ removeBeneficiary_err(managerOwner, U1) = "BeneficiaryNotFound"
    /\ InList(merchantList, U3) /\ ~merchants[U3].isActive
    /\ merchants[U3].category = MEDICAL
    /\ removeMerchant_err(managerOwner, U3) = "MerchantNotFound"

\* The status of an identity in one role, read from its record.
RoleStatus(record) ==
    IF record.isActive THEN "Active"
    ELSE IF record.registeredAt # 0 THEN "Removed"
    ELSE "Unregistered"

\* The transitions of the status.
RoleTransition(before, after) ==
    \/ after = before
    \/ before = "Unregistered" /\ after = "Active"
    \/ before = "Active" /\ after = "Removed"

\* C13: in every step and for every identity, the beneficiary status and
\* the merchant status either stay or move Unregistered -> Active or
\* Active -> Removed; so a removed identity never becomes active again and
\* no identity returns to Unregistered.
C13_RoleStateMachine ==
    [][\A i \in Addr :
          /\ RoleTransition(RoleStatus(beneficiaries[i]),
                            RoleStatus(beneficiaries'[i]))
          /\ RoleTransition(RoleStatus(merchants[i]),
                            RoleStatus(merchants'[i]))
      ]_vars

\* C13 witness: all three statuses are present in both roles, with an
\* identity removed as a beneficiary and active as a merchant.
C13_Witness ==
    /\ RoleStatus(beneficiaries[U1]) = "Active"
    /\ RoleStatus(beneficiaries[U2]) = "Removed"
    /\ RoleStatus(beneficiaries[U3]) = "Unregistered"
    /\ RoleStatus(merchants[U2]) = "Active"
    /\ RoleStatus(merchants[U3]) = "Removed"
    /\ RoleStatus(merchants[U1]) = "Unregistered"
    /\ ~managerPaused

\* C14: a call of an owner-only function by an account that is not the
\* owner never completes, whatever its arguments and the state: the
\* whitelist mutations, recordDistribution, setStablecoin, pauseSystem and
\* unpauseSystem of the fund manager, and mint, burn, pause, unpause and
\* setFundManager of the token all revert with OwnableUnauthorizedAccount,
\* so the state stays as it was.
C14_OnlyOwner ==
    \A s \in Accounts :
        /\ s # managerOwner =>
              /\ \A a \in Addr :
                    /\ addBeneficiary_err(s, a) = "OwnableUnauthorizedAccount"
                    /\ ~ENABLED addBeneficiary(s, a)
                    /\ removeBeneficiary_err(s, a)
                          = "OwnableUnauthorizedAccount"
                    /\ ~ENABLED removeBeneficiary(s, a)
                    /\ removeMerchant_err(s, a) = "OwnableUnauthorizedAccount"
                    /\ ~ENABLED removeMerchant(s, a)
                    /\ setStablecoin_err(s, a) = "OwnableUnauthorizedAccount"
                    /\ ~ENABLED setStablecoin(s, a)
                    /\ \A p \in MerchantProfiles :
                          /\ addMerchant_err(s, a, p[1], p[2])
                                = "OwnableUnauthorizedAccount"
                          /\ ~ENABLED addMerchant(s, a, p[1], p[2])
                    /\ \A v \in Uint :
                          /\ recordDistribution_err(s, a, v)
                                = "OwnableUnauthorizedAccount"
                          /\ ~ENABLED recordDistribution(s, a, v)
              /\ pauseSystem_err(s) = "OwnableUnauthorizedAccount"
              /\ ~ENABLED pauseSystem(s)
              /\ unpauseSystem_err(s) = "OwnableUnauthorizedAccount"
              /\ ~ENABLED unpauseSystem(s)
        /\ s # tokenOwner =>
              /\ \A a \in Addr :
                    /\ setFundManager_err(s, a) = "OwnableUnauthorizedAccount"
                    /\ ~ENABLED setFundManager(s, a)
                    /\ \A v \in Uint :
                          /\ mint_err(s, a, v) = "OwnableUnauthorizedAccount"
                          /\ ~ENABLED mint(s, a, v)
                          /\ burn_err(s, a, v) = "OwnableUnauthorizedAccount"
                          /\ ~ENABLED burn(s, a, v)
              /\ pause_err(s) = "OwnableUnauthorizedAccount"
              /\ ~ENABLED pause(s)
              /\ unpause_err(s) = "OwnableUnauthorizedAccount"
              /\ ~ENABLED unpause(s)

\* C14 witness: a state in which the owner's calls would all complete
\* (an active beneficiary and merchant, a holder with tokens, nothing
\* paused) while the same calls of another account are refused.
C14_Witness ==
    /\ removeBeneficiary_err(managerOwner, U1) = "ok"
    /\ removeBeneficiary_err(U3, U1) = "OwnableUnauthorizedAccount"
    /\ removeMerchant_err(managerOwner, U2) = "ok"
    /\ recordDistribution_err(managerOwner, U1, 1) = "ok"
    /\ recordDistribution_err(U3, U1, 1) = "OwnableUnauthorizedAccount"
    /\ pauseSystem_err(managerOwner) = "ok"
    /\ burn_err(tokenOwner, U1, 1) = "ok"
    /\ burn_err(U3, U1, 1) = "OwnableUnauthorizedAccount"
    /\ pause_err(tokenOwner) = "ok"
    /\ pause_err(U3) = "OwnableUnauthorizedAccount"
    /\ stablecoin = TokenAddr /\ fundManager = ManagerAddr

\* C15: the audit log is append-only.  In every step getTransactionCount
\* does not decrease, and every index that holds a record before the step
\* still answers getTransaction with the identical record after it.
C15_AuditLogAppendOnly ==
    [][/\ getTransactionCount' >= getTransactionCount
       /\ \A k \in 0..(getTransactionCount - 1) :
             /\ getTransaction_err(k)' = "ok"
             /\ getTransaction(k)' = getTransaction(k)
      ]_vars

\* C15 witness: two different records are in the log, and the beneficiary
\* and the merchant of the first one have been removed since.
C15_Witness ==
    /\ getTransactionCount = 2
    /\ getTransaction(0) # getTransaction(1)
    /\ ~beneficiaries[getTransaction(0).from].isActive
    /\ ~merchants[getTransaction(0).to].isActive

\* C16: while the token is paused no step changes any account balance
\* (and so none changes the total supply).
C16_PausedNoBalanceChange ==
    [][tokenPaused => /\ balances' = balances
                      /\ totalSupply' = totalSupply]_vars

\* C17: a completed recordDistribution(b, amount) is a call of the owner.
\* When b is an active beneficiary it adds exactly amount to b's
\* totalReceived; otherwise it changes nothing, and the owner's call then
\* completes without an error in every state.  In both cases totalSpent,
\* the active flags, every other record, the lists, the audit log and the
\* counters stay as they were.
C17_RecordDistributionEffect ==
    /\ [](\A b \in Addr, v \in Uint :
            ~beneficiaries[b].isActive =>
               /\ recordDistribution_err(managerOwner, b, v) = "ok"
               /\ ENABLED (recordDistribution(managerOwner, b, v)
                              /\ UNCHANGED vars))
    /\ [][\A s \in Accounts, b \in Addr, v \in Uint :
            recordDistribution(s, b, v) =>
               /\ s = managerOwner
               /\ IF beneficiaries[b].isActive
                  THEN /\ beneficiaries'[b].totalReceived
                             = beneficiaries[b].totalReceived + v
                       /\ beneficiaries'[b].totalSpent
                             = beneficiaries[b].totalSpent
                       /\ beneficiaries'[b].isActive
                       /\ beneficiaries'[b].registeredAt
                             = beneficiaries[b].registeredAt
                  ELSE beneficiaries'[b] = beneficiaries[b]
               /\ \A j \in Addr \ {b} : beneficiaries'[j] = beneficiaries[j]
               /\ UNCHANGED <<merchants, beneficiaryList, merchantList,
                              transactionHistory, totalBeneficiaries,
                              totalMerchants, totalTransactions,
                              stablecoin, managerPaused, tokenVars>>
       ]_vars

\* C17 witness: an active beneficiary has been credited a distribution and
\* has spent nothing, while a distribution to a removed beneficiary and to
\* an unregistered account would complete as a no-op.
C17_Witness ==
    /\ beneficiaries[U1].isActive
    /\ beneficiaries[U1].totalReceived = 1
    /\ beneficiaries[U1].totalSpent = 0
    /\ InList(beneficiaryList, U2) /\ ~beneficiaries[U2].isActive
    /\ recordDistribution_err(managerOwner, U2, 1) = "ok"
    /\ recordDistribution_err(managerOwner, U3, 1) = "ok"

\* C18: in every step and for every identity, totalReceived and totalSpent
\* do not decrease, the removal of the beneficiary included; and a step
\* that changes an identity's totalSpent is a recordTransfer of the
\* designated stablecoin from that identity, then an active beneficiary, to
\* an active merchant, which adds the recorded amount and appends the
\* record.
C18_AccumulatorsMonotone ==
    [][\A i \in Addr :
          /\ beneficiaries'[i].totalReceived >= beneficiaries[i].totalReceived
          /\ beneficiaries'[i].totalSpent >= beneficiaries[i].totalSpent
          /\ beneficiaries'[i].totalSpent # beneficiaries[i].totalSpent =>
                \E t \in Addr, v \in Uint :
                   /\ beneficiaries[i].isActive
                   /\ merchants[t].isActive
                   /\ recordTransfer(stablecoin, i, t, v)
                   /\ beneficiaries'[i].totalSpent
                         = beneficiaries[i].totalSpent + v
                   /\ LastRecord(transactionHistory') =
                         [from |-> i, to |-> t, amount |-> v,
                          category |-> merchants[t].category,
                          timestamp |-> BlockTimestamp, success |-> TRUE]
      ]_vars

\* C18 witness: a beneficiary that received and spent has been removed and
\* keeps both accumulators, after a later record of another amount.
C18_Witness ==
    /\ InList(beneficiaryList, U1) /\ ~beneficiaries[U1].isActive
    /\ beneficiaries[U1].totalReceived = 1
    /\ beneficiaries[U1].totalSpent = 1
    /\ getTransactionCount = 2
    /\ getTransaction(0).amount = 1
    /\ getTransaction(1).amount = 0

\* C19: right after a completed addMerchant(m, c, n), getMerchantDetails(m)
\* answers (active, c, n, the registration time) and isMerchant(m) is
\* true, and the details of every other merchant are what they were: so
\* merchants added with different categories each report their own.
C19_MerchantDetailsRoundTrip ==
    [][\A s \in Accounts, m \in Addr, p \in MerchantProfiles :
          addMerchant(s, m, p[1], p[2]) =>
             /\ getMerchantDetails(m)' = <<TRUE, p[1], p[2], BlockTimestamp>>
             /\ isMerchant(m)'
             /\ \A j \in Addr \ {m} :
                   getMerchantDetails(j)' = getMerchantDetails(j)
      ]_vars

\* C19 witness: two merchants added with different categories and names
\* each report their own.
C19_Witness ==
    \E m1 \in MerchantInputs, m2 \in MerchantInputs :
        /\ merchantList = <<m1, m2>>
        /\ getMerchantDetails(m1) = <<TRUE, FOOD, "Grocery", BlockTimestamp>>
        /\ getMerchantDetails(m2)
              = <<TRUE, MEDICAL, "Pharmacy", BlockTimestamp>>
        /\ isMerchant(m1) /\ isMerchant(m2)

\* C20: in every state getTransaction(k) fails with the index error for
\* every k at or beyond the log's length, the empty log included, and
\* answers for every k below it; the record it answers at k is the one
\* appended when the log had k records: a recording step puts its record
\* at the index that was the length, and leaves the answers below it.
C20_GetTransactionByIndex ==
    /\ [](\A k \in IndexInputs :
            IF k >= getTransactionCount
            THEN getTransaction_err(k) = "Index out of bounds"
            ELSE getTransaction_err(k) = "ok")
    /\ [][\A f \in Addr, t \in Addr, v \in Uint :
            (/\ beneficiaries[f].isActive
             /\ merchants[t].isActive
             /\ recordTransfer(stablecoin, f, t, v)) =>
                /\ getTransactionCount' = getTransactionCount + 1
                /\ \A n \in IndexInputs :
                      n = getTransactionCount =>
                         /\ getTransaction_err(n)' = "ok"
                         /\ getTransaction(n)' =
                               [from |-> f, to |-> t, amount |-> v,
                                category |-> merchants[t].category,
                                timestamp |-> BlockTimestamp,
                                success |-> TRUE]
                /\ \A k \in 0..(getTransactionCount - 1) :
                      getTransaction(k)' = getTransaction(k)
       ]_vars

\* C20 witness: a log of two records to two different merchants, read at
\* both indices and refused at the length and beyond.
C20_Witness ==
    /\ getTransactionCount = 2
    /\ getTransaction_err(0) = "ok" /\ getTransaction_err(1) = "ok"
    /\ getTransaction(0).to # getTransaction(1).to
    /\ getTransaction_err(2) = "Index out of bounds"
    /\ getTransaction_err(3) = "Index out of bounds"

\* The smaller of two numbers.
Minimum(a, b) == IF a < b THEN a ELSE b

\* C21: in every state and for every N, getRecentTransactions(N) does not
\* fail and answers exactly min(N, length) records, the last ones of the
\* log in append order: element j of the answer is the log entry at index
\* length - min(N, length) + j, so a non-empty answer ends with the most
\* recent record; N = 0 or an empty log gives the empty answer.
C21_RecentTransactions ==
    \A N \in IndexInputs :
        LET recent == getRecentTransactions(N)
            n == Minimum(N, getTransactionCount)
        IN  /\ getRecentTransactions_err(N) = "ok"
            /\ Len(recent) = n
            /\ \A j \in 0..(n - 1) :
                  recent[j + 1] = getTransaction(getTransactionCount - n + j)
            /\ n > 0 => recent[n] = LastRecord(transactionHistory)
            /\ (N = 0 \/ getTransactionCount = 0) => recent = <<>>

\* C21 witness: a log of two different records; one recent transaction is
\* the second record, and asking for more than two gives the whole log.
C21_Witness ==
    /\ getTransactionCount = 2
    /\ getTransaction(0) # getTransaction(1)
    /\ getRecentTransactions(1) = <<getTransaction(1)>>
    /\ getRecentTransactions(2) = transactionHistory
    /\ getRecentTransactions(4) = transactionHistory
    /\ getRecentTransactions(0) = <<>>

\* C22: in every state totalBeneficiaries is the number of identities with
\* an active beneficiary record, totalMerchants the number of active
\* merchants and totalTransactions the length of the audit log; and no
\* removal meets an underflow of its counter.
C22_CountersMatch ==
    /\ totalBeneficiaries
          = Cardinality({i \in Addr : beneficiaries[i].isActive})
    /\ totalMerchants = Cardinality({i \in Addr : merchants[i].isActive})
    /\ totalTransactions = Len(transactionHistory)
    /\ \A i \in Addr :
          /\ removeBeneficiary_err(managerOwner, i) # "Panic"
          /\ removeMerchant_err(managerOwner, i) # "Panic"

\* C22 witness: after additions and removals in both roles, one active
\* and one removed beneficiary, one active and one removed merchant, and
\* two recorded transfers.
C22_Witness ==
    /\ Len(beneficiaryList) = 2 /\ totalBeneficiaries = 1
    /\ Len(merchantList) = 2 /\ totalMerchants = 1
    /\ totalTransactions = 2

\* A step is a completed pauseSystem or unpauseSystem.
ManagerPauseStep ==
    \E s \in Accounts : pauseSystem(s) \/ unpauseSystem(s)

\* A step is a completed pause or unpause of the token.
TokenPauseStep ==
    \E s \in Accounts : pause(s) \/ unpause(s)

\* C23: while the fund manager is paused the owner's addBeneficiary and
\* addMerchant fail (EnforcedPause) and never complete, so the registry
\* stays as it was.  removeBeneficiary, removeMerchant, recordTransfer,
\* recordDistribution and isTransferAllowed do not look at the flag: a
\* step that pauses or unpauses the fund manager changes the outcome of
\* none of them, for any arguments, and while paused the removals still
\* complete on active records.  The two pause flags are independent: a
\* pause or unpause of the fund manager leaves the token's state and the
\* outcome of transfer and mint as they were, and a pause or unpause of
\* the token leaves the fund manager's state and the outcome of the
\* registrations as they were.
C23_ManagerPause ==
    /\ [](managerPaused =>
            \A a \in Addr :
               /\ addBeneficiary_err(managerOwner, a) = "EnforcedPause"
               /\ ~ENABLED addBeneficiary(managerOwner, a)
               /\ \A p \in MerchantProfiles :
                     /\ addMerchant_err(managerOwner, a, p[1], p[2])
                           = "EnforcedPause"
                     /\ ~ENABLED addMerchant(managerOwner, a, p[1], p[2])
               /\ (a # ZERO /\ beneficiaries[a].isActive) =>
                     ENABLED removeBeneficiary(managerOwner, a)
               /\ (a # ZERO /\ merchants[a].isActive) =>
                     ENABLED removeMerchant(managerOwner, a))
    /\ [][ManagerPauseStep =>
            /\ UNCHANGED <<tokenVars, stablecoin, registryVars>>
            /\ \A a \in Addr :
                  /\ removeBeneficiary_err(managerOwner, a)'
                        = removeBeneficiary_err(managerOwner, a)
                  /\ removeMerchant_err(managerOwner, a)'
                        = removeMerchant_err(managerOwner, a)
                  /\ \A v \in Uint :
                        /\ recordDistribution_err(managerOwner, a, v)'
                              = recordDistribution_err(managerOwner, a, v)
                        /\ mint_err(tokenOwner, a, v)'
                              = mint_err(tokenOwner, a, v)
                        /\ \A t \in Addr :
                              /\ recordTransfer_err(stablecoin, a, t, v)'
                                   = recordTransfer_err(stablecoin, a, t, v)
                              /\ isTransferAllowed(a, t, v)'
                                   = isTransferAllowed(a, t, v)
                              /\ a \in Accounts =>
                                   transfer_err(a, t, v)'
                                      = transfer_err(a, t, v)
       ]_vars
    /\ [][TokenPauseStep =>
            /\ UNCHANGED managerVars
            /\ \A a \in Addr :
                  /\ addBeneficiary_err(managerOwner, a)'
                        = addBeneficiary_err(managerOwner, a)
                  /\ removeBeneficiary_err(managerOwner, a)'
                        = removeBeneficiary_err(managerOwner, a)
                  /\ \A p \in MerchantProfiles :
                        addMerchant_err(managerOwner, a, p[1], p[2])'
                           = addMerchant_err(managerOwner, a, p[1], p[2])
       ]_vars

\* C23 witness: the fund manager is paused and the token is not; an
\* active beneficiary and an active merchant can still be removed, a
\* distribution and a transfer can still be recorded, and a new
\* registration is refused.
C23_Witness ==
    /\ managerPaused /\ ~tokenPaused
    /\ removeBeneficiary_err(managerOwner, U1) = "ok"
    /\ removeMerchant_err(managerOwner, U3) = "ok"
    /\ recordDistribution_err(managerOwner, U1, 1) = "ok"
    /\ recordTransfer_err(stablecoin, U1, U3, 1) = "ok"
    /\ ~isTransferAllowed(U1, U2, 1)
    /\ beneficiaries[U2] = NoBeneficiary
    /\ addBeneficiary_err(managerOwner, U2) = "EnforcedPause"
    /\ getTransactionCount = 1

\* C24: once a merchant record exists its category and name do not change
\* in any step, its removal included; and in every state every record of
\* the audit log carries the category of its recipient's merchant record.
C24_CategoryImmutable ==
    /\ [](\A k \in 1..Len(transactionHistory) :
            transactionHistory[k].category
               = merchants[transactionHistory[k].to].category)
    /\ [][\A m \in Addr :
            merchants[m].registeredAt # 0 =>
               /\ merchants'[m].category = merchants[m].category
               /\ merchants'[m].name = merchants[m].name
               /\ merchants'[m].registeredAt = merchants[m].registeredAt
       ]_vars

\* C24 witness: a record in a category other than the enum's zero value
\* whose merchant has been removed since and still has that category and
\* its name, next to a merchant of another category.
C24_Witness ==
    \E k \in 1..Len(transactionHistory) :
        LET r == transactionHistory[k]
        IN  /\ r.category = MEDICAL
            /\ ~merchants[r.to].isActive
            /\ merchants[r.to].category = MEDICAL
            /\ merchants[r.to].name = "Pharmacy"
            /\ \E m \in Addr : merchants[m].isActive
                                 /\ merchants[m].category = FOOD

\* The ledger balance of b minus what the registry accounts for b.
Drift(b) ==
    balances[b]
       - (beneficiaries[b].totalReceived - beneficiaries[b].totalSpent)

\* C25 as stated: for every beneficiary the ledger balance equals
\* totalReceived - totalSpent, in every state.
C25_Original ==
    \A b \in Addr :
        beneficiaries[b].registeredAt # 0 => Drift(b) = 0

\* C25: the identity balance = totalReceived - totalSpent is kept only by
\* how the functions are paired, not in every state.  With the contracts
\* linked in both directions, a completed transfer or transferFrom from an
\* active beneficiary to an active merchant other than itself lowers the
\* balance and raises totalSpent by the same amount, so it keeps the
\* difference between the two sides; a mint to a beneficiary raises only
\* the balance, and the owner's recordDistribution for an active
\* beneficiary raises only totalReceived, by the amount each.
C25_ReconciliationByPairing ==
    [][\A b \in Accounts, v \in Uint :
          /\ \A m \in Accounts \ {b} :
                (/\ fundManager = ManagerAddr
                 /\ stablecoin = TokenAddr
                 /\ beneficiaries[b].isActive
                 /\ merchants[m].isActive
                 /\ CommittedTransfer(b, m, v)) =>
                    /\ balances'[b] = balances[b] - v
                    /\ beneficiaries'[b].totalSpent
                          = beneficiaries[b].totalSpent + v
                    /\ Drift(b)' = Drift(b)
          /\ \A s \in Accounts :
                /\ mint(s, b, v) => Drift(b)' = Drift(b) + v
                /\ (beneficiaries[b].isActive
                      /\ recordDistribution(s, b, v)) =>
                         Drift(b)' = Drift(b) - v
      ]_vars

\* C25 witness: a beneficiary was minted 1, a distribution of 1 was
\* recorded for it, and it spent 1 at a merchant through a recorded
\* transfer; both sides of the identity are 0.
C25_Witness ==
    /\ fundManager = ManagerAddr /\ stablecoin = TokenAddr
    /\ beneficiaries[U1].isActive
    /\ beneficiaries[U1].totalReceived = 1
    /\ beneficiaries[U1].totalSpent = 1
    /\ balances[U1] = 0 /\ balances[U2] = 1
    /\ getTransactionCount = 1
    /\ Drift(U1) = 0

\* No address occurs twice in a list.
NoDuplicates(list) ==
    \A j \in 1..Len(list), k \in 1..Len(list) :
        list[j] = list[k] => j = k

\* C26: in every state getAllBeneficiaries (getAllMerchants) holds exactly
\* the identities that have a record in that role, removed ones included,
\* each once, and is at least as long as the active counter; in every step
\* the list stays or gets the identity just added appended at its end, so
\* it is in order of registration and never gets shorter.
C26_ListsGrowOnly ==
    /\ [](/\ NoDuplicates(getAllBeneficiaries)
          /\ NoDuplicates(getAllMerchants)
          /\ \A i \in Addr :
                /\ InList(getAllBeneficiaries, i)
                      <=> RoleStatus(beneficiaries[i]) # "Unregistered"
                /\ InList(getAllMerchants, i)
                      <=> RoleStatus(merchants[i]) # "Unregistered"
          /\ Len(getAllBeneficiaries) >= totalBeneficiaries
          /\ Len(getAllMerchants) >= totalMerchants)
    /\ [][/\ \/ getAllBeneficiaries' = getAllBeneficiaries
             \/ \E s \in Accounts, i \in Addr :
                   /\ addBeneficiary(s, i)
                   /\ getAllBeneficiaries' = Append(getAllBeneficiaries, i)
          /\ \/ getAllMerchants' = getAllMerchants
             \/ \E s \in Accounts, i \in Addr, p \in MerchantProfiles :
                   /\ addMerchant(s, i, p[1], p[2])
                   /\ getAllMerchants' = Append(getAllMerchants, i)
          /\ \A s \in Accounts, i \in Addr :
                /\ addBeneficiary(s, i) =>
                      getAllBeneficiaries' = Append(getAllBeneficiaries, i)
                /\ \A p \in MerchantProfiles :
                      addMerchant(s, i, p[1], p[2]) =>
                         getAllMerchants' = Append(getAllMerchants, i)
       ]_vars

\* C26 witness: two beneficiaries and two merchants are listed in order of
\* registration; the first of each list has been removed and is still
\* listed, so the list is longer than the active counter.
C26_Witness ==
    /\ getAllBeneficiaries = <<U2, U1>>
    /\ ~beneficiaries[U2].isActive /\ beneficiaries[U1].isActive
    /\ totalBeneficiaries = 1
    /\ getAllMerchants = <<U3, U2>>
    /\ ~merchants[U3].isActive /\ merchants[U2].isActive
    /\ totalMerchants = 1

\* The sum of the amounts of the log records sent by i: the number of
\* pairs (record, unit) with the unit within the record's amount.
SpentInLog(i) ==
    Cardinality({p \in (1..Len(transactionHistory)) \X (1..MaxUint) :
                    /\ transactionHistory[p[1]].from = i
                    /\ p[2] <= transactionHistory[p[1]].amount})

\* C27: in every state each identity's totalSpent is the sum of the
\* amounts of the log records it sent, and every record has success set;
\* and in every step that appends a record, the record's sender is an
\* active beneficiary and its recipient an active merchant in the state
\* the step starts from.
C27_TotalSpentIsLogSum ==
    /\ [](/\ \A i \in Addr : beneficiaries[i].totalSpent = SpentInLog(i)
          /\ \A k \in 1..Len(transactionHistory) :
                transactionHistory[k].success = TRUE)
    /\ [][Len(transactionHistory') > Len(transactionHistory) =>
            /\ Len(transactionHistory') = Len(transactionHistory) + 1
            /\ beneficiaries[LastRecord(transactionHistory').from].isActive
            /\ merchants[LastRecord(transactionHistory').to].isActive
            /\ LastRecord(transactionHistory').success = TRUE
       ]_vars

\* C27 witness: an identity sent two records, of amounts 1 and 0, has a
\* totalSpent of 1 and has been removed since, as has a recipient.
C27_Witness ==
    /\ getTransactionCount = 2
    /\ getTransaction(0).from = U1 /\ getTransaction(1).from = U1
    /\ getTransaction(0).amount + getTransaction(1).amount = 1
    /\ beneficiaries[U1].totalSpent = 1
    /\ SpentInLog(U1) = 1
    /\ ~beneficiaries[U1].isActive
    /\ ~merchants[getTransaction(0).to].isActive

\* The requests executed for beneficiary b.
ExecutedFor(b) ==
    {id \in RequestIds : /\ mintRequests[id].executed
                         /\ mintRequests[id].beneficiary = b}

\* The sum of the amounts of the executed requests: the number of pairs
\* (request, unit) with the unit within the request's amount.
ExecutedAmount ==
    Cardinality({p \in RequestIds \X (1..MaxSupply) :
                    /\ mintRequests[p[1]].executed
                    /\ p[2] <= mintRequests[p[1]].amount})

\* C28: each mint request is executed at most once.  In every state every
\* beneficiary holds exactly one allocation per executed request naming it,
\* the supply and totalMinted are the sum of the amounts of the executed
\* requests, and approveMint on an executed request fails for every
\* caller; in every step an executed request stays as it is, and the
\* supply grows only by the amount of one request that the step turns
\* from not executed to executed, credited to that request's beneficiary.
C28_ExecutedAtMostOnce ==
    /\ [](/\ \A b \in Addr :
                Len(beneficiaryAllocations[b]) = Cardinality(ExecutedFor(b))
          /\ v2TotalSupply = ExecutedAmount
          /\ totalMinted = ExecutedAmount
          /\ \A b \in Addr :
                v2Balances[b] = Cardinality(
                    {p \in ExecutedFor(b) \X (1..MaxSupply) :
                        p[2] <= mintRequests[p[1]].amount})
          /\ \A s \in V2Callers, id \in RequestIds :
                mintRequests[id].executed => approveMint_err(s, id) # "ok")
    /\ [][/\ \A id \in RequestIds :
                mintRequests[id].executed =>
                    mintRequests'[id] = mintRequests[id]
          /\ v2TotalSupply' # v2TotalSupply =>
                \E id \in RequestIds :
                    /\ ~mintRequests[id].executed
                    /\ mintRequests'[id].executed
                    /\ \A other \in RequestIds \ {id} :
                          mintRequests'[other] = mintRequests[other]
                    /\ v2TotalSupply' =
                          v2TotalSupply + mintRequests'[id].amount
                    /\ v2Balances' = [v2Balances EXCEPT
                          ![mintRequests'[id].beneficiary] =
                              @ + mintRequests'[id].amount]
       ]_vars

\* C28 witness: both requests are executed, one of them on its second
\* approval; an authority that has not approved request 0 is refused on it
\* because it is executed.
C28_Witness ==
    /\ mintRequests[0].executed /\ mintRequests[1].executed
    /\ mintRequests[1].approvalCount = 2
    /\ v2Balances[U3] = 2
    /\ Len(beneficiaryAllocations[U3]) = 2
    /\ authorities[U2] /\ U2 \notin mintRequests[0].approvals
    /\ approveMint_err(U2, 0) = "RequestAlreadyExecuted"

\* C29: a request is executed only when at least requiredApprovals
\* distinct accounts have approved it, its approvalCount is always the
\* number of the accounts recorded as having approved it, and a request id
\* that has not been proposed holds no approval.
C29_ApprovalCountMatchesApprovers ==
    /\ [](\A id \in RequestIds :
            /\ mintRequests[id].approvalCount =
                  Cardinality(mintRequests[id].approvals)
            /\ id >= mintRequestCount => mintRequests[id] = NoRequest)
    /\ [][\A id \in RequestIds :
            ~mintRequests[id].executed /\ mintRequests'[id].executed =>
                Cardinality(mintRequests'[id].approvals) >= requiredApprovals
       ]_vars

\* The state the five gated functions write.
GatedState ==
    <<v2Balances, v2TotalSupply, mintRequestCount, mintRequests,
      beneficiaryAllocations, lastActivityTimestamp, tokenJourneys,
      totalMinted, categorySpending>>

\* transfer, transferFrom, mint, proposeMint and approveMint all fail,
\* whoever calls and whatever the arguments are.
GatedCallsFail ==
    /\ \A s \in Accounts, t \in Addr, v \in V2Uint :
          v2Transfer_err(s, t, v) # "ok"
    /\ \A sp \in Accounts, f \in Accounts, t \in Addr, v \in V2Uint :
          v2TransferFrom_err(sp, f, t, v) # "ok"
    /\ \A s \in Accounts, t \in Addr, v \in V2Uint :
          v2Mint_err(s, t, v) # "ok"
    /\ \A s \in Accounts, b \in Addr, v \in V2Uint, c \in CategoryInputs,
          d \in ExpiryInputs : proposeMint_err(s, b, v, c, d) # "ok"
    /\ \A s \in Accounts, id \in RequestIds : approveMint_err(s, id) # "ok"

NormalAndUnpaused == recoveryMode = NORMAL /\ ~v2Paused

====
